---- MODULE Spec2Model ----
(***************************************************************************)
(* Aeronir: the tile-compositing and coordinate-projection core of         *)
(* src/server.js (and its authenticated twin), and the POST /api/boxes     *)
(* handler that drives it.                                                 *)
(*                                                                         *)
(* Numbers.  The JavaScript code computes in IEEE doubles.  Here a         *)
(* position on the Web-Mercator square is held in fixed point: an integer  *)
(* count of 1/WorldUnits of the world's width (22 fractional bits, i.e.    *)
(* one pixel of a 256-pixel tile at zoom 14).  Geographic inputs are in    *)
(* millidegrees.  Pixel-valued reals are exact rationals [num, den].       *)
(***************************************************************************)
EXTENDS Integers, Sequences, FiniteSets, TLC

(***************************************************************************)
(* Program constants                                                       *)
(***************************************************************************)
TileSize == 256
PlaceholderSize == 256
DefaultZoom == 14
HalfCircle == 180
FullCircle == 360

(***************************************************************************)
(* Bounds of the model                                                     *)
(***************************************************************************)
MaxZoom == 2
MaxTiles == 6
MaxFetch == 4
MaxBoxes == 2
MaxUsers == 2
MaxLabels == 2
MaxSockets == 3

\* model resolution: world fractions are integers in units of 1/WorldUnits
WorldUnits == 2^22
MilliDeg == 10 * 10 * 10

\* null, and a value that is not null
None == <<>>
Some(v) == <<v>>

Min(a, b) == IF a <= b THEN a ELSE b
Max(a, b) == IF a >= b THEN a ELSE b
Abs(a) == IF a < 0 THEN -a ELSE a

(***************************************************************************)
(* Exact rationals num/den, den > 0, for the code's pixel-valued doubles   *)
(***************************************************************************)
Rat(n, d) == [num |-> n, den |-> d]
RatOfInt(i, d) == Rat(i * d, d)
\* a - b and a + b for values held over the same denominator
RatSub(a, b) == Rat(a.num - b.num, a.den)
RatAdd(a, b) == Rat(a.num + b.num, a.den)
RatAbs(a) == Rat(Abs(a.num), a.den)
\* a / k for an integer k > 0
RatDivInt(a, k) == Rat(a.num, a.den * k)
RECURSIVE GCD(_, _)
GCD(a, b) == IF b = 0 THEN a ELSE GCD(b, a % b)
\* a = b as numbers, whatever their denominators
RatEq(a, b) ==
    LET ga == GCD(Abs(a.num), a.den)
        gb == GCD(Abs(b.num), b.den)
    IN  /\ a.num \div ga = b.num \div gb
        /\ a.den \div ga = b.den \div gb
\* 0 <= a <= 1
InUnit(a) == 0 <= a.num /\ a.num <= a.den
\* Math.round(a): floor(a + 1/2)
MathRound(a) == (2 * a.num + a.den) \div (2 * a.den)

(***************************************************************************)
(* Coordinate transform                                                    *)
(***************************************************************************)
\* (lng + 180) / 360, as floor((lng + 180) / 360 * WorldUnits); lng in
\* millidegrees.  WorldUnits / (360 * MilliDeg) = 65536 / 5625; the product is
\* split so that no intermediate exceeds 32 bits.
\* faulty variant of the longitude fraction: the shift by 180 degrees is
\* forgotten (lng / 360)
LngFractionNoShift(lng) ==
    LET a == lng
        g == 64
        d == (FullCircle * MilliDeg) \div g
        m == WorldUnits \div g
    IN  (a \div d) * m + ((a % d) * m) \div d

LngFraction(lng) ==
    LET a == lng + HalfCircle * MilliDeg
        g == 64
        d == (FullCircle * MilliDeg) \div g
        m == WorldUnits \div g
    IN  (a \div d) * m + ((a % d) * m) \div d

\* (1 - asinh(tan(lat * PI / 180)) / PI) / 2, as floor(... * WorldUnits); lat in
\* millidegrees.  The transcendental part is tabulated at the latitudes the
\* model draws from; the values decrease as the latitude grows (north is up)
\* and leave [0, WorldUnits) outside the Mercator range (|lat| > 85.051).
LatFraction(lat) ==
    CASE lat = -89000 -> 5262211
      [] lat = -85051 -> 4194286
      [] lat = -85050 -> 4194151
      [] lat = -30000 -> 2463838
      [] lat = 0      -> 2097152
      [] lat = 50000  -> 1422476
      [] lat = 50010  -> 1422295
      [] lat = 50020  -> 1422113
      [] lat = 85050  -> 152
      [] lat = 85051  -> 17
      [] lat = 89000  -> -1067908

\* Math.floor(fraction * n), n = 2^zoom dividing WorldUnits
FloorTimes(frac, n) == frac \div (WorldUnits \div n)

\* faulty variant of the pixel scaling: the factor tileSize is forgotten
TimesPixelsUnscaled(frac, n, tileSize) == Rat(frac, WorldUnits \div n)

\* fraction * n * tileSize as an exact rational: over WorldUnits / (n * tileSize)
\* when n * tileSize divides WorldUnits, else over WorldUnits / n
TimesPixels(frac, n, tileSize) ==
    IF WorldUnits % (n * tileSize) = 0
    THEN Rat(frac, WorldUnits \div (n * tileSize))
    ELSE Rat(frac * tileSize, WorldUnits \div n)

latLngToTile(lat, lng, zoom) ==
    LET n == 2^zoom
        x == FloorTimes(LngFraction(lng), n)
        y == FloorTimes(LatFraction(lat), n)
    IN  [x |-> x, y |-> y, z |-> zoom]

latLngToGlobalPixel(lat, lng, zoom, tileSize) ==
    LET n == 2^zoom
    IN  [globalX |-> TimesPixels(LngFraction(lng), n, tileSize),
         globalY |-> TimesPixels(LatFraction(lat), n, tileSize)]

(***************************************************************************)
(* Tile grid resolver                                                      *)
(***************************************************************************)
\* the loop nest of getTilesForBounds: x outer, y inner, both ascending
RECURSIVE TileLoop(_, _, _, _, _, _)
TileLoop(x, y, minY, maxX, maxY, zoom) ==
    IF x > maxX THEN <<>>
    ELSE IF y > maxY THEN TileLoop(x + 1, minY, minY, maxX, maxY, zoom)
    ELSE <<[x |-> x, y |-> y, z |-> zoom]>>
         \o TileLoop(x, y + 1, minY, maxX, maxY, zoom)

\* faulty variant of the loop nest: the inner loop stops one row early (y < maxY)
RECURSIVE TileLoopShort(_, _, _, _, _, _)
TileLoopShort(x, y, minY, maxX, maxY, zoom) ==
    IF x > maxX THEN <<>>
    ELSE IF y >= maxY THEN TileLoopShort(x + 1, minY, minY, maxX, maxY, zoom)
    ELSE <<[x |-> x, y |-> y, z |-> zoom]>>
         \o TileLoopShort(x, y + 1, minY, maxX, maxY, zoom)

EnumerateTilesShort(minX, minY, maxX, maxY, zoom) ==
    TileLoopShort(minX, minY, minY, maxX, maxY, zoom)

EnumerateTiles(minX, minY, maxX, maxY, zoom) ==
    TileLoop(minX, minY, minY, maxX, maxY, zoom)

MakeGrid(minX, minY, maxX, maxY, zoom) ==
    [tiles |-> EnumerateTiles(minX, minY, maxX, maxY, zoom),
     gridWidth |-> maxX - minX + 1,
     gridHeight |-> maxY - minY + 1,
     minX |-> minX, minY |-> minY, maxX |-> maxX, maxY |-> maxY]

\* faulty variant of the corner handling: the south-west tile is taken as the
\* minimum and the north-east tile as the maximum on the x axis, without
\* Math.min / Math.max
CornerRangeUnordered(swTile, neTile) ==
    [minX |-> swTile.x, maxX |-> neTile.x,
     minY |-> Min(swTile.y, neTile.y), maxY |-> Max(swTile.y, neTile.y)]

CornerRange(swTile, neTile) ==
    [minX |-> Min(swTile.x, neTile.x), maxX |-> Max(swTile.x, neTile.x),
     minY |-> Min(swTile.y, neTile.y), maxY |-> Max(swTile.y, neTile.y)]

getTilesForBounds(bounds, zoom) ==
    LET swTile == latLngToTile(bounds.south, bounds.west, zoom)
        neTile == latLngToTile(bounds.north, bounds.east, zoom)
        r == CornerRange(swTile, neTile)
    IN  MakeGrid(r.minX, r.minY, r.maxX, r.maxY, zoom)

\* the number of tiles getTilesForBounds will list, without listing them
TileCount(bounds, zoom) ==
    LET swTile == latLngToTile(bounds.south, bounds.west, zoom)
        neTile == latLngToTile(bounds.north, bounds.east, zoom)
    IN  (Abs(swTile.x - neTile.x) + 1) * (Abs(swTile.y - neTile.y) + 1)

(***************************************************************************)
(* Annotation projector                                                    *)
(***************************************************************************)
\* faulty variant of the clamp: the upper limit is forgotten (Math.max(0, v))
ClampLowerOnly(v) == Rat(Max(0, v.num), v.den)

\* Math.max(0, Math.min(1, v))
Clamp01(v) == Rat(Max(0, Min(v.den, v.num)), v.den)

\* faulty variant of the origin offset: the global pixel is used as it is
OriginOffsetNone(minIndex, tileSize) == 0

\* offsetX = minX * tileSize, offsetY = minY * tileSize
OriginOffset(minIndex, tileSize) == minIndex * tileSize

\* faulty variant of the projector: the top edge is taken from the south-west
\* corner and the bottom edge from the north-east corner
calculateYoloForCompositeSouthTop(bounds, tileGrid, zoom, tileSize) ==
    LET compositeWidth == tileGrid.gridWidth * tileSize
        compositeHeight == tileGrid.gridHeight * tileSize
        swPixel == latLngToGlobalPixel(bounds.south, bounds.west, zoom, tileSize)
        nePixel == latLngToGlobalPixel(bounds.north, bounds.east, zoom, tileSize)
        d == swPixel.globalX.den
        offsetX == RatOfInt(OriginOffset(tileGrid.minX, tileSize), d)
        offsetY == RatOfInt(OriginOffset(tileGrid.minY, tileSize), d)
        x1 == RatSub(swPixel.globalX, offsetX)
        x2 == RatSub(nePixel.globalX, offsetX)
        y1 == RatSub(swPixel.globalY, offsetY)
        y2 == RatSub(nePixel.globalY, offsetY)
        boxWidth == RatAbs(RatSub(x2, x1))
        boxHeight == RatAbs(RatSub(y2, y1))
        xCenter == RatDivInt(RatDivInt(RatAdd(x1, x2), 2), compositeWidth)
        yCenter == RatDivInt(RatDivInt(RatAdd(y1, y2), 2), compositeHeight)
    IN  [x_center |-> Clamp01(xCenter),
         y_center |-> Clamp01(yCenter),
         width |-> Clamp01(RatDivInt(boxWidth, compositeWidth)),
         height |-> Clamp01(RatDivInt(boxHeight, compositeHeight)),
         pixel |-> [x1 |-> MathRound(x1), y1 |-> MathRound(y1),
                    x2 |-> MathRound(x2), y2 |-> MathRound(y2)]]

calculateYoloForComposite(bounds, tileGrid, zoom, tileSize) ==
    LET compositeWidth == tileGrid.gridWidth * tileSize
        compositeHeight == tileGrid.gridHeight * tileSize
        swPixel == latLngToGlobalPixel(bounds.south, bounds.west, zoom, tileSize)
        nePixel == latLngToGlobalPixel(bounds.north, bounds.east, zoom, tileSize)
        d == swPixel.globalX.den
        offsetX == RatOfInt(OriginOffset(tileGrid.minX, tileSize), d)
        offsetY == RatOfInt(OriginOffset(tileGrid.minY, tileSize), d)
        x1 == RatSub(swPixel.globalX, offsetX)
        x2 == RatSub(nePixel.globalX, offsetX)
        y1 == RatSub(nePixel.globalY, offsetY)
        y2 == RatSub(swPixel.globalY, offsetY)
        boxWidth == RatAbs(RatSub(x2, x1))
        boxHeight == RatAbs(RatSub(y2, y1))
        xCenter == RatDivInt(RatDivInt(RatAdd(x1, x2), 2), compositeWidth)
        yCenter == RatDivInt(RatDivInt(RatAdd(y1, y2), 2), compositeHeight)
    IN  [x_center |-> Clamp01(xCenter),
         y_center |-> Clamp01(yCenter),
         width |-> Clamp01(RatDivInt(boxWidth, compositeWidth)),
         height |-> Clamp01(RatDivInt(boxHeight, compositeHeight)),
         pixel |-> [x1 |-> MathRound(x1), y1 |-> MathRound(y1),
                    x2 |-> MathRound(x2), y2 |-> MathRound(y2)]]

(***************************************************************************)
(* Tile fetcher                                                            *)
(***************************************************************************)
\* What the tile server answers to one fetch(url).  The url is built from
\* (z, x, y), so an image body is the image of that tile; by the compositor's
\* contract a served tile is tileSize x tileSize.  "garbage" is a 2xx answer
\* whose body sharp cannot decode.
Responses == {"image", "garbage", "httpError", "networkError"}
Failed(resp) == resp \in {"httpError", "networkError"}

Raster(kind, x, y, z, w, h) ==
    [kind |-> kind, x |-> x, y |-> y, z |-> z, width |-> w, height |-> h]

\* faulty variant of the placeholder: created at twice the size
PlaceholderDouble ==
    Raster("placeholder", 0, 0, 0, 2 * PlaceholderSize, 2 * PlaceholderSize)

\* the grey tile downloadTile creates in its catch block
Placeholder == Raster("placeholder", 0, 0, 0, PlaceholderSize, PlaceholderSize)

NoRaster == Raster("none", 0, 0, 0, 0, 0)

\* faulty variant of downloadTile: the catch block lets the error through
downloadTileRethrow(z, x, y, resp, tileSize) ==
    IF Failed(resp)
    THEN [threw |-> TRUE, buffer |-> NoRaster]
    ELSE [threw |-> FALSE,
          buffer |-> IF resp = "image" THEN Raster("tile", x, y, z, tileSize, tileSize)
                     ELSE Raster("garbage", x, y, z, 0, 0)]

\* downloadTile(z, x, y, tileUrlTemplate) under the server's answer resp;
\* tileSize is the size of the image the server serves, not an argument of
\* the function
downloadTile(z, x, y, resp, tileSize) ==
    IF Failed(resp)
    THEN [threw |-> FALSE, buffer |-> Placeholder]
    ELSE [threw |-> FALSE,
          buffer |-> IF resp = "image" THEN Raster("tile", x, y, z, tileSize, tileSize)
                     ELSE Raster("garbage", x, y, z, 0, 0)]

(***************************************************************************)
(* Compositor                                                              *)
(***************************************************************************)
NoResult == [x |-> 0, y |-> 0, z |-> 0, buffer |-> NoRaster]

\* faulty variant of the task body: every task reads the loop's last tile
TaskResultLastTile(tiles, i, buffer) ==
    [x |-> tiles[Len(tiles)].x, y |-> tiles[Len(tiles)].y,
     z |-> tiles[Len(tiles)].z, buffer |-> buffer]

\* { ...tile, buffer } of the task started for tiles[i]
TaskResult(tiles, i, buffer) ==
    [x |-> tiles[i].x, y |-> tiles[i].y, z |-> tiles[i].z, buffer |-> buffer]

\* what Promise.all resolves to: the tasks' results in the order of the input
\* array, whatever the order in which they settled
PromiseAll(results) == [i \in 1..Len(results) |-> results[i]]

\* faulty variant of the placement: absolute tile index instead of grid-relative
PlacementAbsolute(index, minIndex, tileSize) == index * tileSize

\* left = (tile.x - minX) * tileSize, top = (tile.y - minY) * tileSize
Placement(index, minIndex, tileSize) == (index - minIndex) * tileSize

CompositeInputs(tileBuffers, minX, minY, tileSize) ==
    [i \in DOMAIN tileBuffers |->
        [input |-> tileBuffers[i].buffer,
         left |-> Placement(tileBuffers[i].x, minX, tileSize),
         top |-> Placement(tileBuffers[i].y, minY, tileSize)]]

\* faulty variant of the canvas size: width and height exchanged
CompositeSizeTransposed(gridWidth, gridHeight, tileSize) ==
    [width |-> gridHeight * tileSize, height |-> gridWidth * tileSize]

\* compositeWidth, compositeHeight
CompositeSize(gridWidth, gridHeight, tileSize) ==
    [width |-> gridWidth * tileSize, height |-> gridHeight * tileSize]

NoImage == [threw |-> FALSE, buffer |-> <<>>, width |-> 0, height |-> 0]

\* sharp({create}).composite(inputs).jpeg().toBuffer(): it rejects when an
\* input cannot be decoded or is larger than the canvas; otherwise the image
\* is the canvas with the inputs laid over it in order
SharpComposite(size, inputs) ==
    IF \E i \in DOMAIN inputs :
          \/ inputs[i].input.kind \notin {"tile", "placeholder"}
          \/ inputs[i].input.width > size.width
          \/ inputs[i].input.height > size.height
    THEN [threw |-> TRUE, buffer |-> <<>>, width |-> 0, height |-> 0]
    ELSE [threw |-> FALSE, buffer |-> inputs,
          width |-> size.width, height |-> size.height]

\* the raster showing in the tileSize-square cell (cx, cy) of an image: the
\* last input laid over the whole cell, or "none" for the black background
CellLayers(layers, cx, cy, tileSize) ==
    {i \in DOMAIN layers :
        /\ layers[i].left <= cx * tileSize
        /\ cx * tileSize + tileSize <= layers[i].left + layers[i].input.width
        /\ layers[i].top <= cy * tileSize
        /\ cy * tileSize + tileSize <= layers[i].top + layers[i].input.height}

CanvasAt(layers, cx, cy, tileSize) ==
    LET on == CellLayers(layers, cx, cy, tileSize)
    IN  IF on = {} THEN NoRaster
        ELSE layers[CHOOSE i \in on : \A j \in on : j <= i].input

\* createCompositeImage(tileGrid, tileSize, tileUrl) as a whole, under the
\* server's answers resp[i] to the fetch of tiles[i]
createCompositeImage(g, tileSize, resp) ==
    LET size == CompositeSize(g.gridWidth, g.gridHeight, tileSize)
        dl == [i \in DOMAIN g.tiles |->
                 downloadTile(g.tiles[i].z, g.tiles[i].x, g.tiles[i].y,
                              resp[i], tileSize)]
        results == [i \in DOMAIN g.tiles |-> TaskResult(g.tiles, i, dl[i].buffer)]
        tileBuffers == PromiseAll(results)
        inputs == CompositeInputs(tileBuffers, g.minX, g.minY, tileSize)
    IN  IF \E i \in DOMAIN g.tiles : dl[i].threw
        THEN [threw |-> TRUE, buffer |-> <<>>, width |-> 0, height |-> 0]
        ELSE SharpComposite(size, inputs)

(***************************************************************************)
(* State                                                                   *)
(***************************************************************************)
VARIABLES
    \* one evaluation of the resolver and the projector on drawn inputs
    bounds,      \* the GeoBounds handed to the functions (millidegrees)
    zoom,        \* the zoom handed to the functions
    origBounds,  \* the bounds as first drawn, before any exchange of corners
    tileGrid,    \* the last result of getTilesForBounds(bounds, zoom)
    firstGrid,   \* the result of getTilesForBounds(origBounds, zoom)
    yoloGrid,    \* the tile grid handed to calculateYoloForComposite
    yolo,        \* the last result of calculateYoloForComposite
    phase,       \* "input" | "located" | "resolved" | "projected" | "off"
    located,     \* the corners of bounds as tiles and as global pixels
    \* one call of createCompositeImage(tileGrid, tileSize, tileUrl)
    cGrid,           \* its tileGrid argument
    cTileSize,       \* its tileSize argument
    cpc,             \* "fetching" | "compositing" | "returned" | "thrown" | "off"
    fetch,           \* per tile index: "pending" | "settled" | "rejected"
    response,        \* per tile index: the server's answer, "none" while pending
    taskResult,      \* per tile index: what the tile's task resolved with
    arrival,         \* the tile indices in the order their tasks settled
    tileBuffers,     \* what Promise.all resolved with
    compositeInputs, \* the overlay list handed to sharp
    composite,       \* what the call returns: { buffer, width, height }
    \* the server: the store and the POST /api/boxes handlers in flight
    boxes,           \* db.data.boxes
    handler,         \* per request slot: the handler's position and locals
    \* the accounts of the authenticated server
    users,           \* db.data.users
    usersDisk,       \* the users in db.json; None while the file does not exist
    writeQueue,      \* the db.write() calls whose file write is still to come
    cookie,          \* per client: the token cookie it holds
    auth,            \* per client: its auth or admin request in flight
    setupCount,      \* the accounts created by POST /api/auth/setup so far
    \* real-time sync of the boxes
    store,           \* db.data.boxes of the authenticated server: id and userId
    events,          \* per session: the socket events emitted and not yet handled
    request,         \* per session: its HTTP request in flight and the answer
    rectangles,      \* per session: the keys of its rectangles map
    layers,          \* per session and box id: the rectangles on the map
    drawn,           \* the boxes drawn so far, by all the sessions
    \* the export
    dbLabels,        \* db.data.labels
    dbBoxes,         \* db.data.boxes, the fields the export reads
    exported,        \* the GET /api/export/yolo in hand: the store read, the answer
    \* db.json under concurrent box requests
    dataBoxes,       \* db.data.boxes: id and the serial of the request
    jsonBoxes,       \* the boxes in db.json
    pendingWrites,   \* the db.write() calls whose file write is still to come
    job,             \* per request slot: the box handler in flight
    acked,           \* the boxes answered 201
    deleted,         \* the boxes DELETE /api/boxes has spliced out
    posted,          \* the POST /api/boxes requests so far
    \* the onlineUsers registry
    conn,            \* per socket id: "closed" | "refused" | "connected", its user
    onlineUsers,     \* the Map, as its entries in insertion order
    emitted          \* the last 'users:online' emitted: the list, the receivers

pureVars == <<bounds, zoom, origBounds, tileGrid, firstGrid, yoloGrid, yolo, phase,
              located>>

compVars == <<cGrid, cTileSize, cpc, fetch, response, taskResult, arrival,
              tileBuffers, compositeInputs, composite>>

srvVars == <<boxes, handler>>

authVars == <<users, usersDisk, writeQueue, cookie, auth, setupCount>>

syncVars == <<store, events, request, rectangles, layers, drawn>>

expVars == <<dbLabels, dbBoxes, exported>>

storeVars == <<dataBoxes, jsonBoxes, pendingWrites, job, acked, deleted,
               posted>>
regVars == <<conn, onlineUsers, emitted>>

vars == <<pureVars, compVars, srvVars, authVars, syncVars, expVars, storeVars,
          regVars>>

(***************************************************************************)
(* Input sets                                                              *)
(***************************************************************************)
Lats == {-85050, -30000, 50000, 50010, 50020, 85050, 89000}
Lngs == {-180000, 10000, 10010, 10020, 90000, 179999}
Zooms == (0..MaxZoom) \cup {DefaultZoom}
AllBounds == [south : Lats, west : Lngs, north : Lats, east : Lngs]

\* the boxes whose grids createCompositeImage is called with
CompositeBounds ==
    [south : {50000, 50010, 89000}, west : {-180000, 10000, 10020},
     north : {50000, 50010, 89000}, east : {-180000, 10000, 10020}]

NoBounds == [south |-> 0, west |-> 0, north |-> 0, east |-> 0]
NoGrid == [tiles |-> <<>>, gridWidth |-> 0, gridHeight |-> 0,
           minX |-> 0, minY |-> 0, maxX |-> 0, maxY |-> 0]
NoRat == Rat(0, 1)
NoTile == [x |-> 0, y |-> 0, z |-> 0]
NoPixel == [globalX |-> NoRat, globalY |-> NoRat]
NoLocated == [tileSize |-> 0, swTile |-> NoTile, neTile |-> NoTile,
              swPixel |-> NoPixel, nePixel |-> NoPixel]
\* the tile sizes latLngToGlobalPixel is evaluated with
TileSizes == {1, 100, TileSize}
NoYolo == [x_center |-> NoRat, y_center |-> NoRat, width |-> NoRat,
           height |-> NoRat,
           pixel |-> [x1 |-> 0, y1 |-> 0, x2 |-> 0, y2 |-> 0]]

(***************************************************************************)
(* The resolver and the projector applied to drawn inputs                  *)
(***************************************************************************)
CompOff ==
    /\ cGrid = NoGrid
    /\ cTileSize = 0
    /\ cpc = "off"
    /\ fetch = <<>>
    /\ response = <<>>
    /\ taskResult = <<>>
    /\ arrival = <<>>
    /\ tileBuffers = <<>>
    /\ compositeInputs = <<>>
    /\ composite = NoImage

SrvOff ==
    /\ boxes = <<>>
    /\ handler = <<>>

AuthOff ==
    /\ users = <<>>
    /\ usersDisk = None
    /\ writeQueue = <<>>
    /\ cookie = <<>>
    /\ auth = <<>>
    /\ setupCount = 0

SyncOff ==
    /\ store = <<>>
    /\ events = <<>>
    /\ request = <<>>
    /\ rectangles = <<>>
    /\ layers = <<>>
    /\ drawn = 0

ExportOff ==
    /\ dbLabels = <<>>
    /\ dbBoxes = <<>>
    /\ exported = None

StoreOff ==
    /\ dataBoxes = <<>>
    /\ jsonBoxes = <<>>
    /\ pendingWrites = <<>>
    /\ job = <<>>
    /\ acked = {}
    /\ deleted = {}
    /\ posted = 0

RegistryOff ==
    /\ conn = <<>>
    /\ onlineUsers = <<>>
    /\ emitted = <<>>

InitPure ==
    /\ CompOff
    /\ SrvOff
    /\ AuthOff
    /\ SyncOff
    /\ ExportOff
    /\ StoreOff
    /\ RegistryOff
    /\ bounds \in AllBounds
    /\ zoom \in Zooms
    /\ TileCount(bounds, zoom) <= MaxTiles
    /\ origBounds = bounds
    /\ tileGrid = NoGrid
    /\ firstGrid = NoGrid
    /\ yoloGrid = NoGrid
    /\ yolo = NoYolo
    /\ phase = "input"
    /\ located = NoLocated

PureOff ==
    /\ bounds = NoBounds
    /\ zoom = 0
    /\ origBounds = NoBounds
    /\ tileGrid = NoGrid
    /\ firstGrid = NoGrid
    /\ yoloGrid = NoGrid
    /\ yolo = NoYolo
    /\ phase = "off"
    /\ located = NoLocated

\* tileGrid = getTilesForBounds(bounds, zoom)
Resolve ==
    /\ phase = "input"
    /\ tileGrid' = getTilesForBounds(bounds, zoom)
    /\ firstGrid' = IF firstGrid = NoGrid THEN tileGrid' ELSE firstGrid
    /\ phase' = "resolved"
    /\ UNCHANGED <<bounds, zoom, origBounds, yoloGrid, yolo, located>>
    /\ UNCHANGED <<compVars, srvVars, authVars, syncVars, expVars, storeVars, regVars>>

\* the caller hands in the other diagonal: south and north exchanged
SwapSouthNorth ==
    /\ phase = "resolved"
    /\ bounds' = [bounds EXCEPT !.south = bounds.north, !.north = bounds.south]
    /\ phase' = "input"
    /\ UNCHANGED <<zoom, origBounds, tileGrid, firstGrid, yoloGrid, yolo, located>>
    /\ UNCHANGED <<compVars, srvVars, authVars, syncVars, expVars, storeVars, regVars>>

\* the caller hands in the other diagonal: west and east exchanged
SwapWestEast ==
    /\ phase = "resolved"
    /\ bounds' = [bounds EXCEPT !.west = bounds.east, !.east = bounds.west]
    /\ phase' = "input"
    /\ UNCHANGED <<zoom, origBounds, tileGrid, firstGrid, yoloGrid, yolo, located>>
    /\ UNCHANGED <<compVars, srvVars, authVars, syncVars, expVars, storeVars, regVars>>

\* yolo = calculateYoloForComposite(bounds, tileGrid, zoom, tileSize), as
\* POST /api/boxes calls it: with the grid resolved from the same bounds
Project ==
    /\ phase = "resolved"
    /\ yoloGrid' = tileGrid
    /\ yolo' = calculateYoloForComposite(bounds, tileGrid, zoom, TileSize)
    /\ phase' = "projected"
    /\ UNCHANGED <<bounds, zoom, origBounds, tileGrid, firstGrid, located>>
    /\ UNCHANGED <<compVars, srvVars, authVars, syncVars, expVars, storeVars, regVars>>

\* calculateYoloForComposite with a grid that was resolved from another box
\* (the function takes its grid as an argument and does not check it)
ProjectOnto ==
    /\ phase = "resolved"
    /\ \E lat \in Lats, lng \in Lngs :
         LET other == [south |-> lat, west |-> lng, north |-> lat, east |-> lng]
         IN  /\ yoloGrid' = getTilesForBounds(other, zoom)
             /\ yolo' = calculateYoloForComposite(bounds, yoloGrid', zoom, TileSize)
    /\ phase' = "projected"
    /\ UNCHANGED <<bounds, zoom, origBounds, tileGrid, firstGrid, located>>
    /\ UNCHANGED <<compVars, srvVars, authVars, syncVars, expVars, storeVars, regVars>>

\* both corners of bounds converted by latLngToTile and, with tile size
\* tileSize, by latLngToGlobalPixel
Locate(tileSize) ==
    /\ phase = "input"
    /\ located' =
         [tileSize |-> tileSize,
          swTile |-> latLngToTile(bounds.south, bounds.west, zoom),
          neTile |-> latLngToTile(bounds.north, bounds.east, zoom),
          swPixel |-> latLngToGlobalPixel(bounds.south, bounds.west, zoom, tileSize),
          nePixel |-> latLngToGlobalPixel(bounds.north, bounds.east, zoom, tileSize)]
    /\ phase' = "located"
    /\ UNCHANGED <<bounds, zoom, origBounds, tileGrid, firstGrid, yoloGrid, yolo>>
    /\ UNCHANGED <<compVars, srvVars, authVars, syncVars, expVars, storeVars, regVars>>

NextPure ==
    \/ \E tileSize \in TileSizes : Locate(tileSize)
    \/ Resolve
    \/ SwapSouthNorth
    \/ SwapWestEast
    \/ Project
    \/ ProjectOnto

SpecPure == InitPure /\ [][NextPure]_vars

(***************************************************************************)
(* One call of createCompositeImage, its tile fetches running concurrently *)
(***************************************************************************)
\* the state once tiles.map(async ...) has started one task per tile: every
\* task has issued its fetch and none has settled
InitComposite ==
    /\ PureOff
    /\ SrvOff
    /\ AuthOff
    /\ SyncOff
    /\ ExportOff
    /\ StoreOff
    /\ RegistryOff
    /\ \E b \in CompositeBounds, z \in Zooms :
         /\ TileCount(b, z) <= MaxFetch
         /\ cGrid = getTilesForBounds(b, z)
    /\ cTileSize = TileSize
    /\ cpc = "fetching"
    /\ fetch = [i \in DOMAIN cGrid.tiles |-> "pending"]
    /\ response = [i \in DOMAIN cGrid.tiles |-> "none"]
    /\ taskResult = [i \in DOMAIN cGrid.tiles |-> NoResult]
    /\ arrival = <<>>
    /\ tileBuffers = <<>>
    /\ compositeInputs = <<>>
    /\ composite = NoImage

\* faulty variant of the fetch: after a failed answer the tile is requested
\* again instead of being replaced by the placeholder
FetchSettleRetry(i, resp) ==
    /\ cpc = "fetching"
    /\ fetch[i] = "pending"
    /\ response[i] = "none"
    /\ LET t == cGrid.tiles[i]
           d == downloadTile(t.z, t.x, t.y, resp, cTileSize)
       IN  IF Failed(resp)
           THEN UNCHANGED <<fetch, taskResult, arrival>>
           ELSE /\ fetch' = [fetch EXCEPT ![i] = "settled"]
                /\ taskResult' = [taskResult EXCEPT ![i] =
                                    TaskResult(cGrid.tiles, i, d.buffer)]
                /\ arrival' = Append(arrival, i)
    /\ response' = [response EXCEPT ![i] = resp]
    /\ UNCHANGED <<cGrid, cTileSize, cpc, tileBuffers, compositeInputs, composite>>
    /\ UNCHANGED <<pureVars, srvVars, authVars, syncVars, expVars, storeVars, regVars>>

\* the fetch of tiles[i] settles with the server's answer resp, downloadTile
\* returns (or throws), and the task of tiles[i] resolves (or rejects)
FetchSettle(i, resp) ==
    /\ cpc = "fetching"
    /\ fetch[i] = "pending"
    /\ LET t == cGrid.tiles[i]
           d == downloadTile(t.z, t.x, t.y, resp, cTileSize)
       IN  /\ fetch' = [fetch EXCEPT ![i] = IF d.threw THEN "rejected" ELSE "settled"]
           /\ taskResult' = [taskResult EXCEPT ![i] =
                               IF d.threw THEN NoResult
                               ELSE TaskResult(cGrid.tiles, i, d.buffer)]
    /\ response' = [response EXCEPT ![i] = resp]
    /\ arrival' = Append(arrival, i)
    /\ UNCHANGED <<cGrid, cTileSize, cpc, tileBuffers, compositeInputs, composite>>
    /\ UNCHANGED <<pureVars, srvVars, authVars, syncVars, expVars, storeVars, regVars>>

\* faulty variant of the join: it resolves as soon as one task has resolved
JoinOnFirst ==
    /\ cpc = "fetching"
    /\ \E i \in DOMAIN fetch : fetch[i] # "pending"
    /\ IF \E i \in DOMAIN fetch : fetch[i] = "rejected"
       THEN /\ cpc' = "thrown"
            /\ UNCHANGED <<tileBuffers, compositeInputs>>
       ELSE /\ cpc' = "compositing"
            /\ tileBuffers' = PromiseAll(taskResult)
            /\ compositeInputs' =
                 CompositeInputs(tileBuffers', cGrid.minX, cGrid.minY, cTileSize)
    /\ UNCHANGED <<cGrid, cTileSize, fetch, response, taskResult, arrival, composite>>
    /\ UNCHANGED <<pureVars, srvVars, authVars, syncVars, expVars, storeVars, regVars>>

\* await Promise.all(...): it resolves once every task has resolved, and
\* rejects as soon as one has rejected; compositeInputs is computed right after
Join ==
    /\ cpc = "fetching"
    /\ \A i \in DOMAIN fetch :
         fetch[i] = "pending" => \E j \in DOMAIN fetch : fetch[j] = "rejected"
    /\ IF \E i \in DOMAIN fetch : fetch[i] = "rejected"
       THEN /\ cpc' = "thrown"
            /\ UNCHANGED <<tileBuffers, compositeInputs>>
       ELSE /\ cpc' = "compositing"
            /\ tileBuffers' = PromiseAll(taskResult)
            /\ compositeInputs' =
                 CompositeInputs(tileBuffers', cGrid.minX, cGrid.minY, cTileSize)
    /\ UNCHANGED <<cGrid, cTileSize, fetch, response, taskResult, arrival, composite>>
    /\ UNCHANGED <<pureVars, srvVars, authVars, syncVars, expVars, storeVars, regVars>>

\* await sharp({create}).composite(compositeInputs).jpeg().toBuffer(), return
Compose ==
    /\ cpc = "compositing"
    /\ LET r == SharpComposite(
                   CompositeSize(cGrid.gridWidth, cGrid.gridHeight, cTileSize),
                   compositeInputs)
       IN  /\ composite' = r
           /\ cpc' = IF r.threw THEN "thrown" ELSE "returned"
    /\ UNCHANGED <<cGrid, cTileSize, fetch, response, taskResult, arrival,
                   tileBuffers, compositeInputs>>
    /\ UNCHANGED <<pureVars, srvVars, authVars, syncVars, expVars, storeVars, regVars>>

NextComposite ==
    \/ \E i \in DOMAIN fetch, resp \in Responses : FetchSettle(i, resp)
    \/ Join
    \/ Compose

SpecComposite == InitComposite /\ [][NextComposite]_vars

(***************************************************************************)
(* POST /api/boxes                                                         *)
(***************************************************************************)
\* the handlers that may be in flight at once
Slots == {1, 2}

\* req.body: labelId 0 stands for a body that lacks labelId, labelName or
\* bounds; zoom NoZoom for a body without zoom
NoZoom == 0 - 1
ReqBounds ==
    {[south |-> 50000, west |-> 10000, north |-> 50010, east |-> 10010],
     [south |-> 50010, west |-> 10020, north |-> 50020, east |-> 10000]}
ReqZooms == {NoZoom, 0, MaxZoom}
\* the requests drawn: each box without zoom, one with zoom 0, the other with
\* zoom MaxZoom, and one body that lacks a required field
Bodies ==
    {b \in [labelId : {0, 1}, bounds : ReqBounds, zoom : ReqZooms] :
        /\ b.labelId = 0 => (b.zoom = NoZoom /\ b.bounds.west = 10000)
        /\ b.zoom = 0 => b.bounds.west = 10000
        /\ b.zoom = MaxZoom => b.bounds.west = 10020}

NoBody == [labelId |-> 0, bounds |-> NoBounds, zoom |-> NoZoom]
NoBox == [id |-> 0]
IdleHandler ==
    [pc |-> "idle", body |-> NoBody, zoomLevel |-> 0, tileGrid |-> NoGrid,
     boxId |-> 0, failure |-> "none", newBox |-> NoBox,
     status |-> 0, resBody |-> NoBox]

\* zoom || 14
ZoomOrDefault(z) == IF z = NoZoom \/ z = 0 THEN DefaultZoom ELSE z

RECURSIVE MaxId(_)
MaxId(bs) == IF bs = <<>> THEN 0 ELSE Max(Head(bs).id, MaxId(Tail(bs)))

\* db.data.boxes.length ? Math.max(...ids) + 1 : 1
NextBoxId(bs) == IF Len(bs) > 0 THEN MaxId(bs) + 1 ELSE 1

\* faulty variant of the try block: imageInfo is assigned whether or not the
\* composite was produced and written
ImageInfoRegardless(boxId, comp, written) ==
    Some([path |-> <<"saved_tiles", boxId>>,
          width |-> comp.width, height |-> comp.height])

\* the try/catch around createCompositeImage and fs.writeFile: imageInfo, or
\* null when either of them threw
ImageInfo(boxId, comp, written) ==
    IF comp.threw \/ ~written THEN None
    ELSE Some([path |-> <<"saved_tiles", boxId>>,
               width |-> comp.width, height |-> comp.height])

NewBox(h, imageInfo) ==
    [id |-> h.boxId,
     labelId |-> h.body.labelId,
     bounds |-> h.body.bounds,
     zoom |-> h.zoomLevel,
     tiles |-> h.tileGrid.tiles,
     tileGrid |-> [width |-> h.tileGrid.gridWidth, height |-> h.tileGrid.gridHeight,
                   minX |-> h.tileGrid.minX, minY |-> h.tileGrid.minY],
     image |-> IF imageInfo # None THEN Some(imageInfo[1].path) ELSE None,
     imageSize |-> IF imageInfo # None
                   THEN Some([width |-> imageInfo[1].width,
                              height |-> imageInfo[1].height])
                   ELSE None,
     yolo |-> calculateYoloForComposite(h.body.bounds, h.tileGrid, h.zoomLevel,
                                        TileSize)]

InitServer ==
    /\ PureOff
    /\ CompOff
    /\ AuthOff
    /\ SyncOff
    /\ ExportOff
    /\ StoreOff
    /\ RegistryOff
    /\ boxes = <<>>
    /\ handler = [r \in Slots |-> IdleHandler]

InFlight == {r \in Slots : handler[r].pc \in {"reading", "composite"}}

\* a request arrives: 400 when a required field is missing, else the handler
\* awaits db.read()
PostBoxes(r, body) ==
    /\ handler[r].pc = "idle"
    /\ Len(boxes) + Cardinality(InFlight) < MaxBoxes
    /\ handler' = [handler EXCEPT ![r] =
         IF body.labelId = 0
         THEN [IdleHandler EXCEPT !.pc = "done", !.body = body, !.status = 400]
         ELSE [IdleHandler EXCEPT !.pc = "reading", !.body = body]]
    /\ UNCHANGED boxes
    /\ UNCHANGED <<pureVars, compVars, authVars, syncVars, expVars, storeVars, regVars>>

\* db.read() has resolved: zoomLevel, tileGrid and boxId are computed and
\* createCompositeImage is called; the handler awaits it
AfterRead(r) ==
    /\ handler[r].pc = "reading"
    /\ LET zl == ZoomOrDefault(handler[r].body.zoom)
       IN  handler' = [handler EXCEPT ![r] =
             [@ EXCEPT !.pc = "composite",
                       !.zoomLevel = zl,
                       !.tileGrid = getTilesForBounds(handler[r].body.bounds, zl),
                       !.boxId = NextBoxId(boxes)]]
    /\ UNCHANGED boxes
    /\ UNCHANGED <<pureVars, compVars, authVars, syncVars, expVars, storeVars, regVars>>

\* createCompositeImage has settled under the tile server's answers resp, and
\* fs.writeFile (when it was reached) has succeeded or thrown; the handler
\* computes the annotation, pushes the box and awaits db.write()
ImageSettled(r, resp, written) ==
    /\ handler[r].pc = "composite"
    /\ LET h == handler[r]
           comp == createCompositeImage(h.tileGrid, TileSize, resp)
           imageInfo == ImageInfo(h.boxId, comp, written)
           newBox == NewBox(h, imageInfo)
       IN  /\ boxes' = Append(boxes, newBox)
           /\ handler' = [handler EXCEPT ![r] =
                [@ EXCEPT !.pc = "writing",
                          !.failure = IF comp.threw THEN "composite"
                                      ELSE IF ~written THEN "write" ELSE "none",
                          !.newBox = newBox]]
    /\ UNCHANGED <<pureVars, compVars, authVars, syncVars, expVars, storeVars, regVars>>

\* db.write() has resolved: res.status(201).json(newBox)
Respond(r) ==
    /\ handler[r].pc = "writing"
    /\ handler' = [handler EXCEPT ![r] =
         [@ EXCEPT !.pc = "done", !.status = 201,
                   !.resBody = handler[r].newBox]]
    /\ UNCHANGED boxes
    /\ UNCHANGED <<pureVars, compVars, authVars, syncVars, expVars, storeVars, regVars>>

\* the response has been sent; the slot takes the next request
Finish(r) ==
    /\ handler[r].pc = "done"
    /\ handler' = [handler EXCEPT ![r] = IdleHandler]
    /\ UNCHANGED boxes
    /\ UNCHANGED <<pureVars, compVars, authVars, syncVars, expVars, storeVars, regVars>>

Next ==
    \/ \E r \in Slots, body \in Bodies : PostBoxes(r, body)
    \/ \E r \in Slots : AfterRead(r)
    \/ \E r \in Slots :
         \E resp \in [DOMAIN handler[r].tileGrid.tiles -> Responses],
            written \in BOOLEAN :
            ImageSettled(r, resp, written)
    \/ \E r \in Slots : Respond(r)
    \/ \E r \in Slots : Finish(r)

Spec == InitServer /\ [][Next]_vars

(***************************************************************************)
(* Accounts: the user store, the tokens and the auth and admin routes of   *)
(* the authenticated server                                                *)
(***************************************************************************)
\* the browsers talking to the server; each keeps the token cookie it was
\* last sent and has at most one request in flight
Clients == {1, 2}

\* email as typed, and email.toLowerCase().trim()
RawEmails == {"a@x", " A@x", "b@x"}
\* what each client types
ClientEmails(c) == IF c = 1 THEN {"a@x"} ELSE {" A@x", "b@x"}
Normalize(email) == IF email = " A@x" THEN "a@x" ELSE email

\* passwords as typed: none, one of fewer than 6 characters, two that pass
NoPassword == ""
ShortPassword == "short"
Passwords == {NoPassword, ShortPassword, "secret1"}
LoginPasswords == {NoPassword, "secret1", "wrong12"}
PasswordLength(p) == IF p = NoPassword THEN 0 ELSE IF p = ShortPassword THEN 5 ELSE 7

Roles == {"admin", "user"}

\* a token: the payload jwt.sign was given; NoToken for a request without
\* cookie and header, Forged for a token jwt.verify rejects
NoUser == [id |-> 0, email |-> "", role |-> ""]
NoToken == NoUser
Forged == [id |-> 0, email |-> "", role |-> "forged"]
Payload(u) == [id |-> u.id, email |-> u.email, role |-> u.role]

\* authenticateToken: 401 without a token or with one jwt.verify rejects, else
\* req.user is the decoded payload
authenticateToken(token) ==
    IF token = NoToken THEN [status |-> 401, user |-> NoUser]
    ELSE IF token = Forged THEN [status |-> 401, user |-> NoUser]
    ELSE [status |-> 0, user |-> token]

\* requireAdmin: 403 unless the payload's role is 'admin'
requireAdmin(user) == IF user.role # "admin" THEN 403 ELSE 0

\* !db.data.users.some(u => u.role === 'admin')
needsSetup(us) == ~(\E i \in DOMAIN us : us[i].role = "admin")

\* db.data.users.filter(u => u.role === 'admin').length
AdminCount(us) == Cardinality({i \in DOMAIN us : us[i].role = "admin"})

\* db.data.users.findIndex(pred) / find(pred): the first index of those that
\* satisfy pred, 0 for none
FirstIndex(S) == IF S = {} THEN 0 ELSE CHOOSE i \in S : \A j \in S : i <= j

FindById(us, id) == FirstIndex({i \in DOMAIN us : us[i].id = id})
FindByEmail(us, email) == FirstIndex({i \in DOMAIN us : us[i].email = email})

\* db.data.users.length ? Math.max(...ids) + 1 : 1
NextUserId(us) == IF Len(us) > 0 THEN MaxId(us) + 1 ELSE 1

\* users.splice(index, 1)
Splice(us, index) == [i \in 1..(Len(us) - 1) |-> IF i < index THEN us[i] ELSE us[i + 1]]

NewUser(id, email, password, role) ==
    [id |-> id, email |-> Normalize(email), password |-> password, role |-> role]

NoAccount == [id |-> 0, email |-> "", password |-> "", role |-> ""]

IdleAuth ==
    [kind |-> "none", pc |-> "idle", email |-> "", password |-> "", id |-> 0,
     role |-> "", user |-> NoUser, found |-> NoAccount,
     status |-> 0, storedRole |-> "", adminAtRequest |-> FALSE]

\* the handler has sent its response: its locals are dead
Done(h, status) ==
    [IdleAuth EXCEPT !.kind = h.kind, !.pc = "done", !.status = status,
                     !.storedRole = h.storedRole,
                     !.adminAtRequest = h.adminAtRequest]

AdminKinds == {"adminUsers", "userRole", "deleteUser", "dbReset"}

\* the role the store holds for the account a token names, "none" without one
StoredRole(us, id) ==
    LET i == FindById(us, id) IN IF i = 0 THEN "none" ELSE us[i].role

\* what db.read() leaves in db.data: the file's content, or db.data as it is
\* while the file does not exist
ReadData == IF usersDisk = None THEN users ELSE usersDisk[1]

\* an admin account exists: in db.data and, once there is a file, in the file
AdminExists == ~needsSetup(users) /\ ~needsSetup(ReadData)

\* db.write() called by client c: the data is serialized now and written later
WriteCall(c, data) == Append(writeQueue, [client |-> c, data |-> data])

WritePending(c) == \E i \in DOMAIN writeQueue : writeQueue[i].client = c

\* the accounts being created by requests in flight
Creating == {c \in Clients : auth[c].kind \in {"setup", "register"}
                             /\ auth[c].pc \in {"needsSetup", "reading", "hashing"}}

\* the server has started: db.json does not exist yet, or holds no users
InitAuth ==
    /\ PureOff
    /\ CompOff
    /\ SrvOff
    /\ SyncOff
    /\ ExportOff
    /\ StoreOff
    /\ RegistryOff
    /\ users = <<>>
    /\ usersDisk \in {None, Some(<<>>)}
    /\ writeQueue = <<>>
    /\ cookie = [c \in Clients |-> NoToken]
    /\ auth = [c \in Clients |-> IdleAuth]
    /\ setupCount = 0

OthersOff == UNCHANGED <<pureVars, compVars, srvVars, syncVars, expVars, storeVars, regVars>>

\* the file write at the head of the queue completes
WriteLands ==
    /\ writeQueue # <<>>
    /\ usersDisk' = Some(Head(writeQueue).data)
    /\ writeQueue' = Tail(writeQueue)
    /\ UNCHANGED <<users, cookie, auth, setupCount>>
    /\ OthersOff

\* ---- POST /api/auth/setup ----
\* the request arrives; the handler awaits needsSetup(), i.e. db.read()
PostSetup(c, email, password) ==
    /\ auth[c].pc = "idle"
    /\ Len(users) + Cardinality(Creating) < MaxUsers
    /\ setupCount < MaxUsers
    /\ auth' = [auth EXCEPT ![c] =
         [IdleAuth EXCEPT !.kind = "setup", !.pc = "needsSetup",
                          !.email = email, !.password = password,
                          !.adminAtRequest = AdminExists]]
    /\ UNCHANGED <<users, usersDisk, writeQueue, cookie, setupCount>>
    /\ OthersOff

\* needsSetup() has resolved: 400 when an admin exists or the body is bad,
\* else the handler awaits db.read()
SetupNeedsSetup(c) ==
    /\ auth[c].kind = "setup" /\ auth[c].pc = "needsSetup"
    /\ users' = ReadData
    /\ auth' = [auth EXCEPT ![c] =
         IF ~needsSetup(users')
            \/ auth[c].email = "" \/ auth[c].password = NoPassword
            \/ PasswordLength(auth[c].password) < 6
         THEN Done(@, 400)
         ELSE [@ EXCEPT !.pc = "reading"]]
    /\ UNCHANGED <<usersDisk, writeQueue, cookie, setupCount>>
    /\ OthersOff

\* db.read() has resolved; the handler awaits bcrypt.hash
SetupRead(c) ==
    /\ auth[c].kind = "setup" /\ auth[c].pc = "reading"
    /\ users' = ReadData
    /\ auth' = [auth EXCEPT ![c] = [@ EXCEPT !.pc = "hashing"]]
    /\ UNCHANGED <<usersDisk, writeQueue, cookie, setupCount>>
    /\ OthersOff

\* the hash is there: the admin account with id 1 is pushed, db.write() awaited
SetupHashed(c) ==
    /\ auth[c].kind = "setup" /\ auth[c].pc = "hashing"
    /\ users' = Append(users, NewUser(1, auth[c].email, auth[c].password, "admin"))
    /\ writeQueue' = WriteCall(c, users')
    /\ setupCount' = setupCount + 1
    /\ auth' = [auth EXCEPT ![c] =
         [@ EXCEPT !.pc = "writing", !.found = users'[Len(users')]]]
    /\ UNCHANGED <<usersDisk, cookie>>
    /\ OthersOff

\* ---- POST /api/auth/register ----
\* the request arrives: 400 for a bad body, else the handler awaits db.read()
PostRegister(c, email, password) ==
    /\ auth[c].pc = "idle"
    /\ Len(users) + Cardinality(Creating) < MaxUsers
    /\ auth' = [auth EXCEPT ![c] =
         IF email = "" \/ password = NoPassword \/ PasswordLength(password) < 6
         THEN Done([IdleAuth EXCEPT !.kind = "register"], 400)
         ELSE [IdleAuth EXCEPT !.kind = "register", !.pc = "reading",
                               !.email = email, !.password = password]]
    /\ UNCHANGED <<users, usersDisk, writeQueue, cookie, setupCount>>
    /\ OthersOff

\* db.read() has resolved: 400 when the email is registered, else the handler
\* awaits bcrypt.hash
RegisterRead(c) ==
    /\ auth[c].kind = "register" /\ auth[c].pc = "reading"
    /\ users' = ReadData
    /\ auth' = [auth EXCEPT ![c] =
         IF FindByEmail(users', Normalize(auth[c].email)) # 0
         THEN Done(@, 400)
         ELSE [@ EXCEPT !.pc = "hashing"]]
    /\ UNCHANGED <<usersDisk, writeQueue, cookie, setupCount>>
    /\ OthersOff

\* the hash is there: the account is pushed with the next free id and role
\* 'user', db.write() awaited
RegisterHashed(c) ==
    /\ auth[c].kind = "register" /\ auth[c].pc = "hashing"
    /\ users' = Append(users, NewUser(NextUserId(users), auth[c].email,
                                      auth[c].password, "user"))
    /\ writeQueue' = WriteCall(c, users')
    /\ auth' = [auth EXCEPT ![c] =
         [@ EXCEPT !.pc = "writing", !.found = users'[Len(users')]]]
    /\ UNCHANGED <<usersDisk, cookie, setupCount>>
    /\ OthersOff

\* db.write() has resolved for setup or register: the token is signed from
\* newUser, set as cookie and sent with status 201
AccountCreated(c) ==
    /\ auth[c].kind \in {"setup", "register"} /\ auth[c].pc = "writing"
    /\ ~WritePending(c)
    /\ cookie' = [cookie EXCEPT ![c] = Payload(auth[c].found)]
    /\ auth' = [auth EXCEPT ![c] = Done(@, 201)]
    /\ UNCHANGED <<users, usersDisk, writeQueue, setupCount>>
    /\ OthersOff

\* ---- POST /api/auth/login, POST /api/auth/logout ----
\* the request arrives: 400 for a missing field, else the handler awaits
\* db.read()
PostLogin(c, email, password) ==
    /\ auth[c].pc = "idle"
    /\ auth' = [auth EXCEPT ![c] =
         IF email = "" \/ password = NoPassword
         THEN Done([IdleAuth EXCEPT !.kind = "login"], 400)
         ELSE [IdleAuth EXCEPT !.kind = "login", !.pc = "reading",
                               !.email = email, !.password = password]]
    /\ UNCHANGED <<users, usersDisk, writeQueue, cookie, setupCount>>
    /\ OthersOff

\* db.read() has resolved: 401 for an unknown email, else the handler holds the
\* user object and awaits bcrypt.compare
LoginRead(c) ==
    /\ auth[c].kind = "login" /\ auth[c].pc = "reading"
    /\ users' = ReadData
    /\ LET i == FindByEmail(users', Normalize(auth[c].email))
       IN  auth' = [auth EXCEPT ![c] =
             IF i = 0
             THEN Done(@, 401)
             ELSE [@ EXCEPT !.pc = "comparing", !.found = users'[i]]]
    /\ UNCHANGED <<usersDisk, writeQueue, cookie, setupCount>>
    /\ OthersOff

\* bcrypt.compare has resolved: 401 for a wrong password, else the token is
\* signed from the user object, set as cookie and sent
LoginCompared(c) ==
    /\ auth[c].kind = "login" /\ auth[c].pc = "comparing"
    /\ IF auth[c].password # auth[c].found.password
       THEN /\ auth' = [auth EXCEPT ![c] = Done(@, 401)]
            /\ UNCHANGED cookie
       ELSE /\ auth' = [auth EXCEPT ![c] = Done(@, 200)]
            /\ cookie' = [cookie EXCEPT ![c] = Payload(auth[c].found)]
    /\ UNCHANGED <<users, usersDisk, writeQueue, setupCount>>
    /\ OthersOff

\* res.clearCookie('token')
PostLogout(c) ==
    /\ auth[c].pc = "idle"
    /\ cookie[c] # NoToken
    /\ cookie' = [cookie EXCEPT ![c] = NoToken]
    /\ UNCHANGED <<users, usersDisk, writeQueue, auth, setupCount>>
    /\ OthersOff

\* ---- the admin routes: authenticateToken, requireAdmin, then the handler ----
\* the middleware chain on arrival: the handler record when it refuses, or the
\* record with req.user set and pc "handler"
Admitted(kind, token) ==
    LET a == authenticateToken(token)
        h == [IdleAuth EXCEPT !.kind = kind, !.user = a.user,
                              !.storedRole = StoredRole(users, token.id)]
    IN  IF a.status # 0 THEN Done(h, a.status)
        ELSE IF requireAdmin(a.user) # 0
             THEN Done(h, requireAdmin(a.user))
             ELSE [h EXCEPT !.pc = "handler"]

\* GET /api/admin/users arrives; the handler awaits db.read()
GetAdminUsers(c, token) ==
    /\ auth[c].pc = "idle"
    /\ LET h == Admitted("adminUsers", token)
       IN  auth' = [auth EXCEPT ![c] =
             IF h.pc = "done" THEN h ELSE [h EXCEPT !.pc = "reading"]]
    /\ UNCHANGED <<users, usersDisk, writeQueue, cookie, setupCount>>
    /\ OthersOff

\* db.read() has resolved: the list is sent
AdminUsersRead(c) ==
    /\ auth[c].kind = "adminUsers" /\ auth[c].pc = "reading"
    /\ users' = ReadData
    /\ auth' = [auth EXCEPT ![c] = Done(@, 200)]
    /\ UNCHANGED <<usersDisk, writeQueue, cookie, setupCount>>
    /\ OthersOff

\* PUT /api/admin/users/:id/role arrives: 400 for a role that is neither
\* 'admin' nor 'user', else the handler awaits db.read()
PutUserRole(c, token, id, role) ==
    /\ auth[c].pc = "idle"
    /\ LET h == [Admitted("userRole", token) EXCEPT !.id = id, !.role = role]
       IN  auth' = [auth EXCEPT ![c] =
             IF h.pc = "done" THEN h
             ELSE IF role \notin Roles THEN Done(h, 400)
             ELSE [h EXCEPT !.pc = "reading"]]
    /\ UNCHANGED <<users, usersDisk, writeQueue, cookie, setupCount>>
    /\ OthersOff

\* faulty variant of the role change: the last admin is not protected
UserRoleReadUnguarded(c) ==
    /\ auth[c].kind = "userRole" /\ auth[c].pc = "reading"
    /\ LET data == ReadData
           i == FindById(data, auth[c].id)
           a == auth
       IN  IF i = 0
           THEN /\ users' = data
                /\ auth' = [a EXCEPT ![c] = Done(@, 404)]
                /\ UNCHANGED writeQueue
           ELSE /\ users' = [data EXCEPT ![i].role = auth[c].role]
                /\ auth' = [a EXCEPT ![c] = [@ EXCEPT !.pc = "writing"]]
                /\ writeQueue' = WriteCall(c, users')
    /\ UNCHANGED <<usersDisk, cookie, setupCount>>
    /\ OthersOff

\* db.read() has resolved: 404 for an unknown id, 400 when the last admin
\* would be demoted, else user.role is set and db.write() awaited
UserRoleRead(c) ==
    /\ auth[c].kind = "userRole" /\ auth[c].pc = "reading"
    /\ LET data == ReadData
           i == FindById(data, auth[c].id)
           a == auth
       IN  IF i = 0
           THEN /\ users' = data
                /\ auth' = [a EXCEPT ![c] = Done(@, 404)]
                /\ UNCHANGED writeQueue
           ELSE IF data[i].role = "admin" /\ auth[c].role = "user"
                   /\ AdminCount(data) <= 1
           THEN /\ users' = data
                /\ auth' = [a EXCEPT ![c] = Done(@, 400)]
                /\ UNCHANGED writeQueue
           ELSE /\ users' = [data EXCEPT ![i].role = auth[c].role]
                /\ auth' = [a EXCEPT ![c] = [@ EXCEPT !.pc = "writing"]]
                /\ writeQueue' = WriteCall(c, users')
    /\ UNCHANGED <<usersDisk, cookie, setupCount>>
    /\ OthersOff

\* DELETE /api/admin/users/:id arrives: 400 for the caller's own id, else the
\* handler awaits db.read()
DeleteUser(c, token, id) ==
    /\ auth[c].pc = "idle"
    /\ LET h == [Admitted("deleteUser", token) EXCEPT !.id = id]
       IN  auth' = [auth EXCEPT ![c] =
             IF h.pc = "done" THEN h
             ELSE IF h.user.id = id THEN Done(h, 400)
             ELSE [h EXCEPT !.pc = "reading"]]
    /\ UNCHANGED <<users, usersDisk, writeQueue, cookie, setupCount>>
    /\ OthersOff

\* db.read() has resolved: 404 for an unknown id, 400 for the last admin, else
\* the account is spliced out and db.write() awaited
DeleteUserRead(c) ==
    /\ auth[c].kind = "deleteUser" /\ auth[c].pc = "reading"
    /\ LET data == ReadData
           i == FindById(data, auth[c].id)
           a == auth
       IN  IF i = 0
           THEN /\ users' = data
                /\ auth' = [a EXCEPT ![c] = Done(@, 404)]
                /\ UNCHANGED writeQueue
           ELSE IF data[i].role = "admin" /\ AdminCount(data) <= 1
           THEN /\ users' = data
                /\ auth' = [a EXCEPT ![c] = Done(@, 400)]
                /\ UNCHANGED writeQueue
           ELSE /\ users' = Splice(data, i)
                /\ auth' = [a EXCEPT ![c] = [@ EXCEPT !.pc = "writing"]]
                /\ writeQueue' = WriteCall(c, users')
    /\ UNCHANGED <<usersDisk, cookie, setupCount>>
    /\ OthersOff

\* DELETE /api/db/reset arrives; the handler awaits the removal of the tiles
DeleteDbReset(c, token) ==
    /\ auth[c].pc = "idle"
    /\ LET h == Admitted("dbReset", token)
       IN  auth' = [auth EXCEPT ![c] =
             IF h.pc = "done" THEN h ELSE [h EXCEPT !.pc = "unlinking"]]
    /\ UNCHANGED <<users, usersDisk, writeQueue, cookie, setupCount>>
    /\ OthersOff

\* the tiles are removed: db.data is replaced by { users, labels: [],
\* boxes: [] } without a db.read(), and db.write() awaited
ResetUnlinked(c) ==
    /\ auth[c].kind = "dbReset" /\ auth[c].pc = "unlinking"
    /\ writeQueue' = WriteCall(c, users)
    /\ auth' = [auth EXCEPT ![c] = [@ EXCEPT !.pc = "writing"]]
    /\ UNCHANGED <<users, usersDisk, cookie, setupCount>>
    /\ OthersOff

\* db.write() has resolved for a role change, a deletion or a reset: 200
AdminWritten(c) ==
    /\ auth[c].kind \in {"userRole", "deleteUser", "dbReset"}
    /\ auth[c].pc = "writing"
    /\ ~WritePending(c)
    /\ auth' = [auth EXCEPT ![c] = Done(@, 200)]
    /\ UNCHANGED <<users, usersDisk, writeQueue, cookie, setupCount>>
    /\ OthersOff

\* the response has been sent; the client may send its next request
AuthFinish(c) ==
    /\ auth[c].pc = "done"
    /\ auth' = [auth EXCEPT ![c] = IdleAuth]
    /\ UNCHANGED <<users, usersDisk, writeQueue, cookie, setupCount>>
    /\ OthersOff

\* the tokens a client may present: its cookie, or one that does not verify
Presented(c) == {cookie[c], Forged}

\* setup and registration on a server that has just started
NextSetup ==
    \/ WriteLands
    \/ \E c \in Clients : \E e \in ClientEmails(c), p \in Passwords : PostSetup(c, e, p)
    \/ \E c \in Clients : SetupNeedsSetup(c)
    \/ \E c \in Clients : SetupRead(c)
    \/ \E c \in Clients : SetupHashed(c)
    \/ \E c \in Clients : \E e \in ClientEmails(c), p \in Passwords : PostRegister(c, e, p)
    \/ \E c \in Clients : RegisterRead(c)
    \/ \E c \in Clients : RegisterHashed(c)
    \/ \E c \in Clients : AccountCreated(c)
    \/ \E c \in Clients : AuthFinish(c)

SpecSetup == InitAuth /\ [][NextSetup]_vars

\* the server after setup by client 1 and registration by client 2: an admin
\* and a user, both holding the token they were sent
InitAdmin ==
    /\ PureOff
    /\ CompOff
    /\ SrvOff
    /\ SyncOff
    /\ ExportOff
    /\ StoreOff
    /\ RegistryOff
    /\ users = <<NewUser(1, "a@x", "secret1", "admin"),
                 NewUser(2, "b@x", "secret1", "user")>>
    /\ usersDisk = Some(users)
    /\ writeQueue = <<>>
    /\ cookie = [c \in Clients |-> Payload(users[c])]
    /\ auth = [c \in Clients |-> IdleAuth]
    /\ setupCount = 1

\* logins and the admin routes once the accounts exist
NextAdmin ==
    \/ WriteLands
    \/ \E c \in Clients : \E e \in ClientEmails(c), p \in LoginPasswords : PostLogin(c, e, p)
    \/ \E c \in Clients : LoginRead(c)
    \/ \E c \in Clients : LoginCompared(c)
    \/ \E c \in Clients : PostLogout(c)
    \/ \E c \in Clients : \E t \in Presented(c) : GetAdminUsers(c, t)
    \/ \E c \in Clients : AdminUsersRead(c)
    \/ \E c \in Clients :
         \E t \in Presented(c), id \in 1..MaxUsers, role \in Roles \cup {"owner"} :
            PutUserRole(c, t, id, role)
    \/ \E c \in Clients : UserRoleRead(c)
    \/ \E c \in Clients :
         \E t \in Presented(c), id \in 1..MaxUsers : DeleteUser(c, t, id)
    \/ \E c \in Clients : DeleteUserRead(c)
    \/ \E c \in Clients : \E t \in Presented(c) : DeleteDbReset(c, t)
    \/ \E c \in Clients : ResetUnlinked(c)
    \/ \E c \in Clients : AdminWritten(c)
    \/ \E c \in Clients : AuthFinish(c)

SpecAdmin == InitAdmin /\ [][NextAdmin]_vars


(***************************************************************************)
(* Real-time sync: the box routes of the authenticated server emitting to  *)
(* every socket, and the browser sessions drawing what they are told       *)
(***************************************************************************)
\* the browser sessions connected to the server, and the account each is
\* logged in with: sessions 1 and 2 are two tabs of the same account
Sessions == {1, 2, 3}
SessionUser(s) == IF s = 3 THEN 2 ELSE 1

NoRequest == [kind |-> "none", id |-> 0, status |-> 0, box |-> [id |-> 0, userId |-> 0]]

BoxIds == 1..MaxBoxes

\* every session has loaded the page and connected its socket; no box exists
InitSync ==
    /\ PureOff
    /\ CompOff
    /\ SrvOff
    /\ AuthOff
    /\ ExportOff
    /\ StoreOff
    /\ RegistryOff
    /\ store = <<>>
    /\ events = [s \in Sessions |-> <<>>]
    /\ request = [s \in Sessions |-> NoRequest]
    /\ rectangles = [s \in Sessions |-> {}]
    /\ layers = [s \in Sessions |-> [id \in BoxIds |-> 0]]
    /\ drawn = 0

SyncOthersOff == UNCHANGED <<pureVars, compVars, srvVars, authVars, expVars, storeVars, regVars>>

\* io.emit(event, data): the event is queued on every connected socket
emitToAll(event, data) ==
    [s \in Sessions |-> Append(events[s], [event |-> event, data |-> data])]

\* finishDrawing: the session posts the box it has drawn and awaits the answer
FinishDrawing(s) ==
    /\ request[s] = NoRequest
    /\ drawn < MaxBoxes
    /\ drawn' = drawn + 1
    /\ request' = [request EXCEPT ![s] = [NoRequest EXCEPT !.kind = "post"]]
    /\ UNCHANGED <<store, events, rectangles, layers>>
    /\ SyncOthersOff

\* POST /api/boxes on the server: the box gets the next id and the caller's
\* user id, is pushed and written, 'box:created' is emitted to every socket
\* and the box is sent back with status 201
PostBoxesEmit(s) ==
    /\ request[s].kind = "post" /\ request[s].status = 0
    \* bound on the queues: the event of the previous change has been delivered
    /\ \A t \in Sessions : events[t] = <<>>
    /\ LET newBox == [id |-> NextBoxId(store), userId |-> SessionUser(s)]
       IN  /\ store' = Append(store, newBox)
           /\ events' = emitToAll("box:created", newBox)
           /\ request' = [request EXCEPT ![s] =
                            [@ EXCEPT !.status = 201, !.box = newBox]]
    /\ UNCHANGED <<rectangles, layers>>
    /\ UNCHANGED drawn
    /\ SyncOthersOff

\* finishDrawing, after the answer: the rectangle is added to the map and
\* rectangles.set(saved.id, ...)
BoxSaved(s) ==
    /\ request[s].kind = "post" /\ request[s].status = 201
    /\ LET id == request[s].box.id
       IN  /\ layers' = [layers EXCEPT ![s][id] = @ + 1]
           /\ rectangles' = [rectangles EXCEPT ![s] = @ \cup {id}]
    /\ request' = [request EXCEPT ![s] = NoRequest]
    /\ UNCHANGED <<store, events>>
    /\ UNCHANGED drawn
    /\ SyncOthersOff

\* deleteBox(id), from the popup of a rectangle the session shows
DeleteBoxClicked(s, id) ==
    /\ request[s] = NoRequest
    /\ id \in rectangles[s]
    /\ request' = [request EXCEPT ![s] = [NoRequest EXCEPT !.kind = "delete", !.id = id]]
    /\ UNCHANGED <<store, events, rectangles, layers>>
    /\ UNCHANGED drawn
    /\ SyncOthersOff

\* DELETE /api/boxes/:id on the server: 404 for an unknown id, else the box is
\* spliced out and written, 'box:deleted' is emitted and success is sent
DeleteBoxesEmit(s) ==
    /\ request[s].kind = "delete" /\ request[s].status = 0
    \* bound on the queues: the event of the previous change has been delivered
    /\ \A t \in Sessions : events[t] = <<>>
    /\ LET index == FindById(store, request[s].id)
       IN  IF index = 0
           THEN /\ request' = [request EXCEPT ![s] = [@ EXCEPT !.status = 404]]
                /\ UNCHANGED <<store, events>>
           ELSE /\ store' = Splice(store, index)
                /\ events' = emitToAll("box:deleted", [id |-> request[s].id,
                                                       userId |-> 0])
                /\ request' = [request EXCEPT ![s] = [@ EXCEPT !.status = 200]]
    /\ UNCHANGED <<rectangles, layers>>
    /\ UNCHANGED drawn
    /\ SyncOthersOff

\* rectangles.get(id): when there is one, its layer is removed from the map
\* and the entry deleted
RemoveRectangle(s, id) ==
    /\ layers' = IF id \in rectangles[s]
                 THEN [layers EXCEPT ![s][id] = @ - 1] ELSE layers
    /\ rectangles' = [rectangles EXCEPT ![s] = @ \ {id}]

\* deleteBox, after the answer: the rectangle is removed; on an error the
\* session only shows an alert
BoxDeleted(s) ==
    /\ request[s].kind = "delete" /\ request[s].status # 0
    /\ IF request[s].status = 200
       THEN RemoveRectangle(s, request[s].id)
       ELSE UNCHANGED <<rectangles, layers>>
    /\ request' = [request EXCEPT ![s] = NoRequest]
    /\ UNCHANGED <<store, events>>
    /\ UNCHANGED drawn
    /\ SyncOthersOff

\* handleBoxCreated(box): nothing for a box of the session's own account or
\* one it has already, else the rectangle is added
handleBoxCreated(s, box) ==
    IF box.userId = SessionUser(s) THEN UNCHANGED <<rectangles, layers>>
    ELSE IF box.id \in rectangles[s] THEN UNCHANGED <<rectangles, layers>>
    ELSE /\ layers' = [layers EXCEPT ![s][box.id] = @ + 1]
         /\ rectangles' = [rectangles EXCEPT ![s] = @ \cup {box.id}]

\* handleBoxDeleted(boxId)
handleBoxDeleted(s, boxId) == RemoveRectangle(s, boxId)

\* the socket of session s delivers its next event
SocketEvent(s) ==
    /\ events[s] # <<>>
    /\ LET e == Head(events[s])
       IN  IF e.event = "box:created" THEN handleBoxCreated(s, e.data)
           ELSE handleBoxDeleted(s, e.data.id)
    /\ events' = [events EXCEPT ![s] = Tail(@)]
    /\ UNCHANGED <<store, request>>
    /\ UNCHANGED drawn
    /\ SyncOthersOff

NextSync ==
    \/ \E s \in Sessions : FinishDrawing(s)
    \/ \E s \in Sessions : PostBoxesEmit(s)
    \/ \E s \in Sessions : BoxSaved(s)
    \/ \E s \in Sessions, id \in BoxIds : DeleteBoxClicked(s, id)
    \/ \E s \in Sessions : DeleteBoxesEmit(s)
    \/ \E s \in Sessions : BoxDeleted(s)
    \/ \E s \in Sessions : SocketEvent(s)

SpecSync == InitSync /\ [][NextSync]_vars

(***************************************************************************)
(* Labels, boxes and GET /api/export/yolo                                  *)
(***************************************************************************)
LabelNames == {"car", "roof", "tree"}

\* req.body.labelId of POST /api/boxes is stored as sent, never looked up in
\* the labels: a label id, or ProtoLabelId, which stands for the string
\* 'toString', the name of a property every object inherits
ProtoLabelId == 0 - 1
SentLabelIds == (1..MaxLabels) \cup {ProtoLabelId}

\* what labelToClass[box.labelId] can yield besides an index: undefined, or
\* the function inherited from Object.prototype
Undefined == 0 - 1
InheritedFunction == 0 - 2

InitExport ==
    /\ PureOff
    /\ CompOff
    /\ SrvOff
    /\ AuthOff
    /\ SyncOff
    /\ StoreOff
    /\ RegistryOff
    /\ dbLabels = <<>>
    /\ dbBoxes = <<>>
    /\ exported = None

ExportOthersOff == UNCHANGED <<pureVars, compVars, srvVars, authVars, syncVars, storeVars, regVars>>

\* labels.length ? Math.max(...ids) + 1 : 1
NextLabelId(ls) == IF Len(ls) > 0 THEN MaxId(ls) + 1 ELSE 1

\* labels.find(l => l.name === name): its index, 0 when there is none
FindByName(ls, name) == FirstIndex({i \in DOMAIN ls : ls[i].name = name})

\* POST /api/labels: a label of that name is sent back as it is, else the
\* new label gets the next id and is pushed
PostLabels(name) ==
    /\ exported = None
    /\ FindByName(dbLabels, name) = 0 => NextLabelId(dbLabels) <= MaxLabels
    /\ dbLabels' = IF FindByName(dbLabels, name) # 0 THEN dbLabels
                   ELSE Append(dbLabels, [id |-> NextLabelId(dbLabels),
                                          name |-> name])
    /\ UNCHANGED <<dbBoxes, exported>>
    /\ ExportOthersOff

\* DELETE /api/labels/:id: 404 for an unknown id, else the label is spliced
\* out and its boxes are dropped
DeleteLabels(id) ==
    /\ exported = None
    /\ LET index == FindById(dbLabels, id)
       IN  IF index = 0 THEN UNCHANGED <<dbLabels, dbBoxes>>
           ELSE /\ dbLabels' = Splice(dbLabels, index)
                /\ dbBoxes' = SelectSeq(dbBoxes, LAMBDA b : b.labelId # id)
    /\ UNCHANGED exported
    /\ ExportOthersOff

\* POST /api/boxes, as far as the export reads the box: the label id is the
\* one sent, image is null when the composite could not be made or written,
\* yolo is always computed
PostBoxesStored(labelId, imageInfo) ==
    /\ exported = None
    /\ NextBoxId(dbBoxes) <= MaxBoxes
    /\ dbBoxes' = Append(dbBoxes,
          [id |-> NextBoxId(dbBoxes),
           labelId |-> labelId,
           image |-> IF imageInfo
                     THEN Some(<<"saved_tiles", NextBoxId(dbBoxes)>>) ELSE None,
           yolo |-> Some("yolo")])
    /\ UNCHANGED <<dbLabels, exported>>
    /\ ExportOthersOff

\* DELETE /api/boxes/:id
DeleteBoxes(id) ==
    /\ exported = None
    /\ LET index == FindById(dbBoxes, id)
       IN  dbBoxes' = IF index = 0 THEN dbBoxes ELSE Splice(dbBoxes, index)
    /\ UNCHANGED <<dbLabels, exported>>
    /\ ExportOthersOff

\* labelToClass[labelId], labelToClass being the plain object {} filled by
\* labels.forEach((label, index) => labelToClass[label.id] = index): the
\* index of the last label of that id; without one, what {} inherits under
\* that key
labelToClass(labels, labelId) ==
    IF \E i \in DOMAIN labels : labels[i].id = labelId
    THEN (CHOOSE i \in DOMAIN labels :
            /\ labels[i].id = labelId
            /\ \A j \in DOMAIN labels : labels[j].id = labelId => j <= i) - 1
    ELSE IF labelId = ProtoLabelId THEN InheritedFunction
    ELSE Undefined

\* boxes.filter(box => box.image && box.yolo).map(...).filter(Boolean)
RECURSIVE imageAnnotations(_, _)
imageAnnotations(bs, labels) ==
    IF bs = <<>> THEN <<>>
    ELSE LET box == Head(bs)
             classId == labelToClass(labels, box.labelId)
             rest == imageAnnotations(Tail(bs), labels)
         IN  IF box.image = None \/ box.yolo = None THEN rest
             ELSE IF classId = Undefined THEN rest
             ELSE <<[boxId |-> box.id, imagePath |-> box.image[1],
                     classId |-> classId]>> \o rest

\* the body of the response
ExportJson(bs, labels) ==
    [classes |-> [i \in DOMAIN labels |-> [id |-> i - 1, name |-> labels[i].name]],
     images |-> imageAnnotations(bs, labels),
     totalBoxes |-> Len(bs),
     totalImages |-> Len(imageAnnotations(bs, labels))]

\* GET /api/export/yolo: the store as read and the response made from it,
\* in one step after db.read(); the next request is taken once it is sent
ExportYolo ==
    /\ exported = None
    /\ exported' = Some([boxes |-> dbBoxes, labels |-> dbLabels,
                         json |-> ExportJson(dbBoxes, dbLabels)])
    /\ UNCHANGED <<dbLabels, dbBoxes>>
    /\ ExportOthersOff

\* the response has been sent
ExportSent ==
    /\ exported # None
    /\ exported' = None
    /\ UNCHANGED <<dbLabels, dbBoxes>>
    /\ ExportOthersOff

NextExport ==
    \/ \E name \in LabelNames : PostLabels(name)
    \/ \E id \in 1..MaxLabels : DeleteLabels(id)
    \/ \E labelId \in SentLabelIds, imageInfo \in BOOLEAN :
         PostBoxesStored(labelId, imageInfo)
    \/ \E id \in 1..MaxBoxes : DeleteBoxes(id)
    \/ ExportYolo
    \/ ExportSent

SpecExport == InitExport /\ [][NextExport]_vars

(***************************************************************************)
(* db.json under concurrent box requests                                   *)
(***************************************************************************)
IdleJob == [kind |-> "none", pc |-> "idle", id |-> 0, serial |-> 0]

InitStore ==
    /\ PureOff
    /\ CompOff
    /\ SrvOff
    /\ AuthOff
    /\ SyncOff
    /\ ExportOff
    /\ RegistryOff
    /\ dataBoxes = <<>>
    /\ jsonBoxes = <<>>
    /\ pendingWrites = <<>>
    /\ job = [r \in Slots |-> IdleJob]
    /\ acked = {}
    /\ deleted = {}
    /\ posted = 0

StoreOthersOff ==
    UNCHANGED <<pureVars, compVars, srvVars, authVars, syncVars, expVars, regVars>>

\* db.write() called by the handler in slot r: db.data is serialized now and
\* replaces the file later
BoxWriteCall(r, data) == Append(pendingWrites, [slot |-> r, data |-> data])

BoxWritePending(r) == \E i \in DOMAIN pendingWrites : pendingWrites[i].slot = r

\* a write reaches db.json, in the order of the calls
BoxWriteLands ==
    /\ pendingWrites # <<>>
    /\ jsonBoxes' = Head(pendingWrites).data
    /\ pendingWrites' = Tail(pendingWrites)
    /\ UNCHANGED <<dataBoxes, job, acked, deleted, posted>>
    /\ StoreOthersOff

\* POST /api/boxes arrives with a valid body; the handler awaits db.read()
BoxPostArrives(r) ==
    /\ job[r].pc = "idle"
    /\ posted < MaxBoxes
    /\ posted' = posted + 1
    /\ job' = [job EXCEPT ![r] = [kind |-> "post", pc |-> "reading", id |-> 0,
                                  serial |-> posted']]
    /\ UNCHANGED <<dataBoxes, jsonBoxes, pendingWrites, acked, deleted>>
    /\ StoreOthersOff

\* db.read() has resolved: db.data is the file's content; boxId is computed
\* and the handler awaits createCompositeImage
BoxPostRead(r) ==
    /\ job[r].kind = "post" /\ job[r].pc = "reading"
    /\ dataBoxes' = jsonBoxes
    /\ job' = [job EXCEPT ![r] = [@ EXCEPT !.pc = "composite",
                                           !.id = NextBoxId(dataBoxes')]]
    /\ UNCHANGED <<jsonBoxes, pendingWrites, acked, deleted, posted>>
    /\ StoreOthersOff

\* the image is there: db.data.boxes.push(newBox), db.write() awaited
BoxPostPushed(r) ==
    /\ job[r].kind = "post" /\ job[r].pc = "composite"
    /\ dataBoxes' = Append(dataBoxes, [id |-> job[r].id, serial |-> job[r].serial])
    /\ pendingWrites' = BoxWriteCall(r, dataBoxes')
    /\ job' = [job EXCEPT ![r] = [@ EXCEPT !.pc = "writing"]]
    /\ UNCHANGED <<jsonBoxes, acked, deleted, posted>>
    /\ StoreOthersOff

\* db.write() has resolved: the box is sent with status 201
BoxPostAnswered(r) ==
    /\ job[r].kind = "post" /\ job[r].pc = "writing"
    /\ ~BoxWritePending(r)
    /\ acked' = acked \cup {[id |-> job[r].id, serial |-> job[r].serial]}
    /\ job' = [job EXCEPT ![r] = IdleJob]
    /\ UNCHANGED <<dataBoxes, jsonBoxes, pendingWrites, deleted, posted>>
    /\ StoreOthersOff

\* DELETE /api/boxes/:id arrives; the handler awaits db.read()
BoxDeleteArrives(r, id) ==
    /\ job[r].pc = "idle"
    /\ job' = [job EXCEPT ![r] = [kind |-> "delete", pc |-> "reading", id |-> id,
                                  serial |-> 0]]
    /\ UNCHANGED <<dataBoxes, jsonBoxes, pendingWrites, acked, deleted, posted>>
    /\ StoreOthersOff

\* db.read() has resolved: 404 for an unknown id; else the first box of that
\* id is spliced out (the removal of its image is awaited in between) and
\* db.write() awaited
BoxDeleteRead(r) ==
    /\ job[r].kind = "delete" /\ job[r].pc = "reading"
    /\ LET index == FindById(jsonBoxes, job[r].id)
       IN  IF index = 0
           THEN /\ dataBoxes' = jsonBoxes
                /\ job' = [job EXCEPT ![r] = IdleJob]
                /\ UNCHANGED <<pendingWrites, deleted>>
           ELSE /\ dataBoxes' = Splice(jsonBoxes, index)
                /\ pendingWrites' = BoxWriteCall(r, dataBoxes')
                /\ deleted' = deleted \cup {jsonBoxes[index]}
                /\ job' = [job EXCEPT ![r] = [@ EXCEPT !.pc = "writing"]]
    /\ UNCHANGED <<jsonBoxes, acked, posted>>
    /\ StoreOthersOff

\* db.write() has resolved: { success: true }
BoxDeleteAnswered(r) ==
    /\ job[r].kind = "delete" /\ job[r].pc = "writing"
    /\ ~BoxWritePending(r)
    /\ job' = [job EXCEPT ![r] = IdleJob]
    /\ UNCHANGED <<dataBoxes, jsonBoxes, pendingWrites, acked, deleted, posted>>
    /\ StoreOthersOff

NextStore ==
    \/ BoxWriteLands
    \/ \E r \in Slots : BoxPostArrives(r)
    \/ \E r \in Slots : BoxPostRead(r)
    \/ \E r \in Slots : BoxPostPushed(r)
    \/ \E r \in Slots : BoxPostAnswered(r)
    \/ \E r \in Slots, id \in 1..MaxBoxes : BoxDeleteArrives(r, id)
    \/ \E r \in Slots : BoxDeleteRead(r)
    \/ \E r \in Slots : BoxDeleteAnswered(r)

SpecStore == InitStore /\ [][NextStore]_vars

(***************************************************************************)
(* The onlineUsers registry                                                *)
(***************************************************************************)
SocketIds == 1..MaxSockets

\* socket.handshake.auth.token as the clients send it: none, one jwt.verify
\* rejects, the admin's, the user's
Handshakes ==
    {NoToken, Forged,
     [id |-> 1, email |-> "a@x", role |-> "admin"],
     [id |-> 2, email |-> "b@x", role |-> "user"]}

Closed == [state |-> "closed", user |-> NoUser]

InitRegistry ==
    /\ PureOff
    /\ CompOff
    /\ SrvOff
    /\ AuthOff
    /\ SyncOff
    /\ ExportOff
    /\ StoreOff
    /\ conn = [s \in SocketIds |-> Closed]
    /\ onlineUsers = <<>>
    /\ emitted = None

RegistryOthersOff ==
    UNCHANGED <<pureVars, compVars, srvVars, authVars, syncVars, expVars, storeVars>>

\* the sockets io.emit reaches
Connected(cn) == {s \in SocketIds : cn[s].state = "connected"}

\* faulty variant of the key: the entry is filed under the user's id
EntryKeyByUser(s, user) == user.id

\* the key of a socket's entry: onlineUsers.set(socket.id, ...)
EntryKey(s, user) == s

\* Map.prototype.set: the value of an existing key is replaced in place, a
\* new key is appended
MapSet(m, key, value) ==
    IF \E i \in DOMAIN m : m[i].key = key
    THEN [i \in DOMAIN m |-> IF m[i].key = key
                             THEN [key |-> key, value |-> value] ELSE m[i]]
    ELSE Append(m, [key |-> key, value |-> value])

\* Map.prototype.delete
MapDelete(m, key) == SelectSeq(m, LAMBDA e : e.key # key)

\* Array.from(onlineUsers.values())
MapValues(m) == [i \in DOMAIN m |-> m[i].value]

\* io.use: the handshake is refused without a token or with one jwt.verify
\* rejects; the socket never reaches the connection handler
HandshakeRefused(s, token) ==
    /\ conn[s].state = "closed"
    /\ token \in {NoToken, Forged}
    /\ conn' = [conn EXCEPT ![s] = [state |-> "refused", user |-> NoUser]]
    /\ UNCHANGED <<onlineUsers, emitted>>
    /\ RegistryOthersOff

\* io.use passes, io.on('connection'): the entry is set and the list emitted
\* to every connected socket, the new one included
Connection(s, token) ==
    /\ conn[s].state = "closed"
    /\ token \notin {NoToken, Forged}
    /\ conn' = [conn EXCEPT ![s] = [state |-> "connected", user |-> token]]
    /\ onlineUsers' = MapSet(onlineUsers, EntryKey(s, token), token)
    /\ emitted' = Some([list |-> MapValues(onlineUsers'), to |-> Connected(conn')])
    /\ RegistryOthersOff

\* socket.on('disconnect'): the entry is deleted and the list emitted
Disconnect(s) ==
    /\ conn[s].state = "connected"
    /\ conn' = [conn EXCEPT ![s] = Closed]
    /\ onlineUsers' = MapDelete(onlineUsers, EntryKey(s, conn[s].user))
    /\ emitted' = Some([list |-> MapValues(onlineUsers'), to |-> Connected(conn')])
    /\ RegistryOthersOff

\* the client gives up a refused socket; its id is free again
Discard(s) ==
    /\ conn[s].state = "refused"
    /\ conn' = [conn EXCEPT ![s] = Closed]
    /\ UNCHANGED <<onlineUsers, emitted>>
    /\ RegistryOthersOff

NextRegistry ==
    \/ \E s \in SocketIds, token \in Handshakes : HandshakeRefused(s, token)
    \/ \E s \in SocketIds, token \in Handshakes : Connection(s, token)
    \/ \E s \in SocketIds : Disconnect(s)
    \/ \E s \in SocketIds : Discard(s)

SpecRegistry == InitRegistry /\ [][NextRegistry]_vars

(***************************************************************************)
(* Properties of the resolver and the projector (under SpecPure)           *)
(***************************************************************************)
Resolved == phase \in {"resolved", "projected"}

TileSet(g) == {g.tiles[i] : i \in DOMAIN g.tiles}

Rectangle(g, z) ==
    {[x |-> x, y |-> y, z |-> z] : x \in g.minX..g.maxX, y \in g.minY..g.maxY}

\* C1: getTilesForBounds returns gridWidth >= 1 and gridHeight >= 1, and its
\* tiles list holds every (x, y) of [minX, maxX] x [minY, maxY] exactly once,
\* each with z = zoom, so that tiles.length = gridWidth * gridHeight; resolving
\* the same bounds again yields the same grid, tiles in the same order.
C1_GridIsFullRectangle ==
    Resolved =>
        /\ tileGrid.gridWidth >= 1
        /\ tileGrid.gridHeight >= 1
        /\ tileGrid.gridWidth = tileGrid.maxX - tileGrid.minX + 1
        /\ tileGrid.gridHeight = tileGrid.maxY - tileGrid.minY + 1
        /\ TileSet(tileGrid) = Rectangle(tileGrid, zoom)
        /\ \A i, j \in DOMAIN tileGrid.tiles :
             i # j => tileGrid.tiles[i] # tileGrid.tiles[j]
        /\ Len(tileGrid.tiles) = tileGrid.gridWidth * tileGrid.gridHeight
        /\ (bounds = origBounds => tileGrid = firstGrid)

\* a grid of three columns and two rows has been resolved
C1_Witness ==
    /\ Resolved
    /\ tileGrid.gridWidth = 3
    /\ tileGrid.gridHeight = 2
    /\ Len(tileGrid.tiles) = 6

\* C2: exchanging south and north, west and east, or both, yields the same
\* TileGrid (same minX, minY, maxX, maxY, gridWidth, gridHeight and the same
\* tiles sequence) as the bounds first handed in.
C2_OrderIndependent ==
    Resolved => tileGrid = firstGrid

\* both pairs of a box that spans several tiles on both axes were exchanged,
\* and the exchanged box has been resolved
C2_Witness ==
    /\ Resolved
    /\ bounds.south = origBounds.north /\ bounds.north = origBounds.south
    /\ bounds.west = origBounds.east /\ bounds.east = origBounds.west
    /\ latLngToTile(bounds.south, bounds.west, zoom).x
         # latLngToTile(bounds.north, bounds.east, zoom).x
    /\ latLngToTile(bounds.south, bounds.west, zoom).y
         # latLngToTile(bounds.north, bounds.east, zoom).y

\* C3: x_center, y_center, width and height returned by
\* calculateYoloForComposite lie in [0, 1], for any bounds, zoom and grid.
C3_NormalizedInUnit ==
    phase = "projected" =>
        /\ InUnit(yolo.x_center)
        /\ InUnit(yolo.y_center)
        /\ InUnit(yolo.width)
        /\ InUnit(yolo.height)

\* a box given with exchanged corners that lie in different tiles has been
\* projected onto its own grid
C3_Witness ==
    /\ phase = "projected"
    /\ yoloGrid = tileGrid
    /\ bounds.south > bounds.north
    /\ bounds.west > bounds.east
    /\ tileGrid.gridWidth > 1
    /\ tileGrid.gridHeight > 1

SameTile ==
    latLngToTile(bounds.south, bounds.west, zoom)
      = latLngToTile(bounds.north, bounds.east, zoom)

\* the box's corners in pixels local to tile t: global pixel minus t's origin
TileLocal(t, tileSize) ==
    LET sw == latLngToGlobalPixel(bounds.south, bounds.west, zoom, tileSize)
        ne == latLngToGlobalPixel(bounds.north, bounds.east, zoom, tileSize)
        d == sw.globalX.den
        ox == RatOfInt(t.x * tileSize, d)
        oy == RatOfInt(t.y * tileSize, d)
    IN  [x1 |-> RatSub(sw.globalX, ox), x2 |-> RatSub(ne.globalX, ox),
         y1 |-> RatSub(ne.globalY, oy), y2 |-> RatSub(sw.globalY, oy)]

\* C7: when both corners fall in the same tile (a zero-area box included) the
\* grid is 1x1 and holds exactly that tile, and the normalized values are the
\* tile-local pixel coordinates divided by tileSize.
C7_SingleTile ==
    (phase = "projected" /\ yoloGrid = tileGrid /\ SameTile) =>
        LET t == latLngToTile(bounds.south, bounds.west, zoom)
            p == TileLocal(t, TileSize)
        IN  /\ tileGrid.gridWidth = 1
            /\ tileGrid.gridHeight = 1
            /\ tileGrid.tiles = <<t>>
            /\ RatEq(yolo.x_center, RatDivInt(RatAdd(p.x1, p.x2), 2 * TileSize))
            /\ RatEq(yolo.y_center, RatDivInt(RatAdd(p.y1, p.y2), 2 * TileSize))
            /\ RatEq(yolo.width, RatDivInt(RatAbs(RatSub(p.x2, p.x1)), TileSize))
            /\ RatEq(yolo.height, RatDivInt(RatAbs(RatSub(p.y2, p.y1)), TileSize))

\* a box of non-zero area inside one tile that is not tile (0, 0) has been
\* projected
C7_Witness ==
    /\ phase = "projected"
    /\ yoloGrid = tileGrid
    /\ SameTile
    /\ bounds.south # bounds.north
    /\ bounds.west # bounds.east
    /\ tileGrid.minX > 0
    /\ tileGrid.minY > 0
    /\ yolo.width.num > 0
    /\ yolo.height.num > 0

\* a zero-area box has been projected onto its 1x1 grid
C7_WitnessDegenerate ==
    /\ phase = "projected"
    /\ yoloGrid = tileGrid
    /\ bounds.south = bounds.north
    /\ bounds.west = bounds.east
    /\ yolo.width.num = 0

\* the bounds lie in the Mercator-safe range: |lat| <= 85.05, -180 <= lng < 180
InMercatorRange(b) ==
    /\ b.south \in (0 - 85050)..85050 /\ b.north \in (0 - 85050)..85050
    /\ b.west \in (0 - 180000)..179999 /\ b.east \in (0 - 180000)..179999

ValidTile(t, z) ==
    /\ t.x \in Int /\ t.y \in Int
    /\ 0 <= t.x /\ t.x < 2^z
    /\ 0 <= t.y /\ t.y < 2^z
    /\ t.z = z

\* C11: for latitudes with |lat| <= 85.05, longitudes in [-180, 180) and any
\* zoom z >= 0, latLngToTile returns integers 0 <= x < 2^z and 0 <= y < 2^z, so
\* every tile getTilesForBounds lists for such bounds is a valid XYZ tile.
C11_TilesInRange ==
    InMercatorRange(bounds) =>
        /\ phase = "located" =>
             /\ ValidTile(located.swTile, zoom)
             /\ ValidTile(located.neTile, zoom)
        /\ Resolved =>
             \A i \in DOMAIN tileGrid.tiles : ValidTile(tileGrid.tiles[i], zoom)

\* the south-east corner of the Mercator-safe range was converted at zoom 14:
\* it falls in the last row of the last column
C11_Witness ==
    /\ phase = "located"
    /\ zoom = DefaultZoom
    /\ bounds.south = 0 - 85050 /\ bounds.west = 179999
    /\ located.swTile = [x |-> 2^zoom - 1, y |-> 2^zoom - 1, z |-> zoom]

\* the whole Mercator-safe range was resolved at zoom 1 into its four tiles
C11_WitnessGrid ==
    /\ Resolved
    /\ zoom = 1
    /\ bounds.south = 0 - 85050 /\ bounds.north = 85050
    /\ bounds.west = 0 - 180000 /\ bounds.east = 179999
    /\ Len(tileGrid.tiles) = 4

\* Math.floor(a / k) for a rational a and an integer k > 0
FloorDiv(a, k) == a.num \div (a.den * k)

\* C12: the tile index latLngToTile returns equals the floor of the global
\* pixel coordinate latLngToGlobalPixel returns divided by tileSize, on both
\* axes, for any lat, lng, zoom and tileSize.
C12_TileIsPixelFloor ==
    phase = "located" =>
        /\ located.swTile.x = FloorDiv(located.swPixel.globalX, located.tileSize)
        /\ located.swTile.y = FloorDiv(located.swPixel.globalY, located.tileSize)
        /\ located.neTile.x = FloorDiv(located.nePixel.globalX, located.tileSize)
        /\ located.neTile.y = FloorDiv(located.nePixel.globalY, located.tileSize)

\* two corners in different tiles, neither on a tile edge nor in tile (0, 0),
\* were converted with a tile size that is not a power of two
C12_Witness ==
    /\ phase = "located"
    /\ located.tileSize = 100
    /\ located.swTile.x # located.neTile.x
    /\ located.swTile.y # located.neTile.y
    /\ located.swTile.x > 0 /\ located.swTile.y > 0
    /\ located.neTile.x > 0 /\ located.neTile.y > 0
    /\ located.swPixel.globalX.num % (located.swPixel.globalX.den * 100) # 0
    /\ located.swPixel.globalY.num % (located.swPixel.globalY.den * 100) # 0

\* corners outside the Mercator range were converted: the tile row is negative
\* and still the floor of the pixel row
C12_WitnessNegative ==
    /\ phase = "located"
    /\ located.neTile.y < 0
    /\ located.nePixel.globalY.num < 0

\* C20: the pixel rectangle's top edge y1 comes from the north-east corner
\* and its bottom edge y2 from the south-west corner, x1 from west and x2 from
\* east; for bounds with south <= north and west <= east it has x1 <= x2 and
\* y1 <= y2.
C20_PixelRectangle ==
    phase = "projected" =>
        LET sw == latLngToGlobalPixel(bounds.south, bounds.west, zoom, TileSize)
            ne == latLngToGlobalPixel(bounds.north, bounds.east, zoom, TileSize)
            ox == RatOfInt(yoloGrid.minX * TileSize, sw.globalX.den)
            oy == RatOfInt(yoloGrid.minY * TileSize, sw.globalY.den)
        IN  /\ yolo.pixel.x1 = MathRound(RatSub(sw.globalX, ox))
            /\ yolo.pixel.x2 = MathRound(RatSub(ne.globalX, ox))
            /\ yolo.pixel.y1 = MathRound(RatSub(ne.globalY, oy))
            /\ yolo.pixel.y2 = MathRound(RatSub(sw.globalY, oy))
            /\ (bounds.south <= bounds.north /\ bounds.west <= bounds.east) =>
                 /\ yolo.pixel.x1 <= yolo.pixel.x2
                 /\ yolo.pixel.y1 <= yolo.pixel.y2

\* a box given south-west / north-east that spans several tiles was projected
\* onto its own grid: the rectangle has a positive width and height in pixels
C20_Witness ==
    /\ phase = "projected"
    /\ yoloGrid = tileGrid
    /\ bounds.south < bounds.north
    /\ bounds.west < bounds.east
    /\ tileGrid.gridWidth > 1
    /\ tileGrid.gridHeight > 1
    /\ yolo.pixel.x1 < yolo.pixel.x2
    /\ yolo.pixel.y1 < yolo.pixel.y2

(***************************************************************************)
(* Properties of createCompositeImage (under SpecComposite)                *)
(***************************************************************************)
Tiles == DOMAIN cGrid.tiles

Joined == cpc \in {"compositing", "returned"} \/ (cpc = "thrown" /\ tileBuffers # <<>>)

CanvasSize == [width |-> cGrid.gridWidth * cTileSize,
               height |-> cGrid.gridHeight * cTileSize]

\* C5: whatever subset of the fetches fails (network error or non-OK status),
\* the fetch phase yields one raster per tile, the failed ones placeholders,
\* the composite is still produced (failed fetches alone never make the call
\* throw) and it is gridWidth*tileSize by gridHeight*tileSize.
C5_FailedFetchesStillComposite ==
    /\ \A i \in Tiles : fetch[i] # "rejected"
    /\ Joined =>
         /\ Len(tileBuffers) = Len(cGrid.tiles)
         /\ \A i \in Tiles :
              Failed(response[i]) <=> tileBuffers[i].buffer.kind = "placeholder"
    /\ cpc = "thrown" => \E i \in Tiles : response[i] = "garbage"
    /\ cpc = "returned" =>
         /\ composite.width = CanvasSize.width
         /\ composite.height = CanvasSize.height
         /\ Len(composite.buffer) = Len(cGrid.tiles)

\* a composite of three or more tiles was returned although one fetch failed
\* with a network error, another with an HTTP error, and a third succeeded
C5_Witness ==
    /\ cpc = "returned"
    /\ Len(cGrid.tiles) >= 3
    /\ \E i, j, k \in Tiles :
         /\ response[i] = "networkError"
         /\ response[j] = "httpError"
         /\ response[k] = "image"

\* C6: downloadTile never lets a failure through: on a network error or a
\* non-success status its task resolves with the placeholder, whose width and
\* height equal the tileSize createCompositeImage was called with.
C6_PlaceholderOnFailure ==
    \A i \in Tiles :
        /\ fetch[i] # "rejected"
        /\ (fetch[i] = "settled" /\ Failed(response[i])) =>
             /\ taskResult[i].buffer.kind = "placeholder"
             /\ taskResult[i].buffer.width = cTileSize
             /\ taskResult[i].buffer.height = cTileSize

\* one fetch has failed with a network error and another with an HTTP error
C6_Witness ==
    \E i, j \in Tiles :
        /\ fetch[i] = "settled" /\ response[i] = "networkError"
        /\ fetch[j] = "settled" /\ response[j] = "httpError"

\* the raster the server's answer determines for one tile
RasterFor(t, resp) == downloadTile(t.z, t.x, t.y, resp, cTileSize).buffer

\* C8: the composite does not depend on the order in which the fetches
\* settle: each task's buffer is written by that task alone (empty until its
\* own fetch settles, then the raster of its own tile), and the raster at
\* canvas cell (x - minX, y - minY) is the one fetched for tile (x, y).
C8_OrderIndependentComposite ==
    /\ \A i \in Tiles :
         /\ fetch[i] = "pending" => taskResult[i] = NoResult
         /\ fetch[i] = "settled" =>
              taskResult[i] = [x |-> cGrid.tiles[i].x, y |-> cGrid.tiles[i].y,
                               z |-> cGrid.tiles[i].z,
                               buffer |-> RasterFor(cGrid.tiles[i], response[i])]
    /\ cpc = "returned" =>
         \A i \in Tiles :
            CanvasAt(composite.buffer, cGrid.tiles[i].x - cGrid.minX,
                     cGrid.tiles[i].y - cGrid.minY, cTileSize)
              = RasterFor(cGrid.tiles[i], response[i])

\* a composite of three or more tiles was returned after the last tile's fetch
\* settled first and the first tile's fetch settled last
C8_Witness ==
    /\ cpc = "returned"
    /\ Len(cGrid.tiles) >= 3
    /\ arrival[1] = Len(cGrid.tiles)
    /\ arrival[Len(arrival)] = 1
    /\ \E i, j \in Tiles : Failed(response[i]) /\ response[j] = "image"

\* C10: each tile (x, y) is placed at left = (x - minX) * tileSize,
\* top = (y - minY) * tileSize; the tileSize-square regions so placed do not
\* overlap, lie inside the canvas, and cover it.
C10_PlacementTilesCanvas ==
    Joined =>
        /\ DOMAIN compositeInputs = Tiles
        /\ \A i \in Tiles :
             /\ compositeInputs[i].left = (cGrid.tiles[i].x - cGrid.minX) * cTileSize
             /\ compositeInputs[i].top = (cGrid.tiles[i].y - cGrid.minY) * cTileSize
             /\ 0 <= compositeInputs[i].left
             /\ compositeInputs[i].left + cTileSize <= CanvasSize.width
             /\ 0 <= compositeInputs[i].top
             /\ compositeInputs[i].top + cTileSize <= CanvasSize.height
        /\ \A i, j \in Tiles :
             i # j =>
               \/ compositeInputs[i].left + cTileSize <= compositeInputs[j].left
               \/ compositeInputs[j].left + cTileSize <= compositeInputs[i].left
               \/ compositeInputs[i].top + cTileSize <= compositeInputs[j].top
               \/ compositeInputs[j].top + cTileSize <= compositeInputs[i].top
        /\ \A cx \in 0..(cGrid.gridWidth - 1), cy \in 0..(cGrid.gridHeight - 1) :
             \E i \in Tiles :
                /\ compositeInputs[i].left = cx * cTileSize
                /\ compositeInputs[i].top = cy * cTileSize

\* the overlays of a 2x2 grid whose origin is not tile (0, 0) were computed
C10_Witness ==
    /\ Joined
    /\ cGrid.gridWidth = 2
    /\ cGrid.gridHeight = 2
    /\ cGrid.minX > 0
    /\ cGrid.minY > 0

\* C18: the compositing step starts only after every tile fetch of the grid
\* has settled: while the canvas is being composed, and once it has been
\* returned, no fetch of the call is outstanding and Promise.all has handed
\* over one result per tile.
C18_JoinBarrier ==
    cpc \in {"compositing", "returned"} =>
        /\ \A i \in Tiles : fetch[i] = "settled"
        /\ Len(tileBuffers) = Len(cGrid.tiles)
        /\ Len(compositeInputs) = Len(cGrid.tiles)

\* a grid of several tiles is being composed, its last tile having been the
\* first to settle
C18_Witness ==
    /\ cpc = "compositing"
    /\ Len(cGrid.tiles) > 1
    /\ arrival[1] = Len(cGrid.tiles)

\* the tasks that have settled, each as often as it did
Settlements(i) == Cardinality({k \in DOMAIN arrival : arrival[k] = i})

\* C19: one fetch task per tile of the grid, all in flight from the start;
\* each tile is answered at most once and its task settles exactly then, so
\* no tile is fetched a second time; a failed fetch is not retried, its task
\* settles with the placeholder.
C19_OneFetchPerTile ==
    /\ DOMAIN fetch = DOMAIN cGrid.tiles
    /\ \A i \in Tiles :
         /\ Settlements(i) <= 1
         /\ fetch[i] = "pending" <=> Settlements(i) = 0
         /\ fetch[i] = "pending" <=> response[i] = "none"
         /\ (fetch[i] # "pending" /\ Failed(response[i])) =>
              /\ fetch[i] = "settled"
              /\ taskResult[i].buffer = Placeholder
    /\ cpc = "returned" => \A i \in Tiles : Settlements(i) = 1

\* the call has returned for a grid of several tiles of which one fetch failed
\* and one succeeded
C19_Witness ==
    /\ cpc = "returned"
    /\ Len(cGrid.tiles) > 1
    /\ \E i, j \in Tiles :
         /\ Failed(response[i]) /\ taskResult[i].buffer = Placeholder
         /\ response[j] = "image"

(***************************************************************************)
(* Properties of POST /api/boxes (under Spec)                              *)
(***************************************************************************)
Stored == {boxes[i] : i \in DOMAIN boxes}

\* the box a handler has built: pushed, and possibly already sent back
Built(r) == handler[r].pc \in {"writing", "done"} /\ handler[r].status # 400

\* C4: the composite is gridWidth*tileSize by gridHeight*tileSize, so every
\* stored box with a non-null image has imageSize.width = tileGrid.width * 256,
\* imageSize.height = tileGrid.height * 256 and
\* tiles.length = tileGrid.width * tileGrid.height.
C4_ImageSizeMatchesGrid ==
    /\ \A b \in Stored :
         b.image # None =>
           /\ b.imageSize # None
           /\ b.imageSize[1].width = b.tileGrid.width * 256
           /\ b.imageSize[1].height = b.tileGrid.height * 256
           /\ Len(b.tiles) = b.tileGrid.width * b.tileGrid.height
    /\ \A r \in Slots :
         (Built(r) /\ handler[r].failure = "none") =>
           /\ handler[r].newBox.imageSize # None
           /\ handler[r].newBox.imageSize[1].width
                = handler[r].tileGrid.gridWidth * TileSize
           /\ handler[r].newBox.imageSize[1].height
                = handler[r].tileGrid.gridHeight * TileSize

\* a box of a grid that is one tile wide and two tiles high, and a box of a
\* grid that is two wide and one high, are stored with their images
C4_Witness ==
    \E a, b \in Stored :
        /\ a.image # None /\ a.tileGrid.width = 1 /\ a.tileGrid.height = 2
        /\ b.image # None /\ b.tileGrid.width = 2 /\ b.tileGrid.height = 1

C9_NullImage(r) ==
    LET h == handler[r]
    IN  /\ h.newBox.image = None
        /\ h.newBox.imageSize = None
        /\ h.newBox.yolo = calculateYoloForComposite(h.body.bounds, h.tileGrid,
                                                     h.zoomLevel, TileSize)
        /\ h.newBox.id = h.boxId
        /\ h.pc = "done" => (h.status = 201 /\ h.resBody = h.newBox)

\* C9: when createCompositeImage or fs.writeFile throws, the request does not
\* fail: the box is pushed to the store and sent back with status 201, its
\* yolo annotation computed from bounds and tile grid as in the success case,
\* its image and imageSize both null.
C9_ImageFailureKeepsBox ==
    /\ [](\A r \in Slots :
            (Built(r) /\ handler[r].failure # "none") => C9_NullImage(r))
    /\ [][\A r \in Slots :
            (handler[r].pc = "composite" /\ handler'[r].pc # "composite") =>
               /\ handler'[r].pc = "writing"
               /\ boxes' = Append(boxes, handler'[r].newBox)]_vars
    /\ [][\A r \in Slots :
            handler[r].pc = "writing" =>
               handler'[r].pc \in {"writing", "done"}]_vars

\* a request whose composite threw and a request whose image could not be
\* written have both been answered 201, their boxes in the store
C9_Witness ==
    \E r, q \in Slots :
        /\ handler[r].pc = "done" /\ handler[r].status = 201
        /\ handler[r].failure = "composite"
        /\ handler[r].newBox \in Stored
        /\ handler[q].pc = "done" /\ handler[q].status = 201
        /\ handler[q].failure = "write"
        /\ handler[q].newBox \in Stored

\* the handler has passed db.read() and computed its zoom level
PastRead(r) == handler[r].pc \in {"composite", "writing"}
               \/ (handler[r].pc = "done" /\ handler[r].status # 400)

\* C13: the zoom that resolves the tile grid, projects the annotation and is
\* recorded on the stored box is the caller's zoom whenever the request
\* supplies an integer zoom (zoom 0 included), and 14 only when the request
\* supplies none.
C13_CallerZoomUsed ==
    \A r \in Slots :
        PastRead(r) =>
            LET h == handler[r]
                z == IF h.body.zoom = NoZoom THEN DefaultZoom ELSE h.body.zoom
            IN  /\ h.zoomLevel = z
                /\ h.tileGrid = getTilesForBounds(h.body.bounds, z)
                /\ Built(r) =>
                     /\ h.newBox.zoom = z
                     /\ h.newBox.yolo
                          = calculateYoloForComposite(h.body.bounds, h.tileGrid, z,
                                                      TileSize)

\* C22: box ids are unique: whatever the interleaving of the POST /api/boxes
\* handlers (two whose tile downloads overlap included), no two boxes of the
\* store share an id.
C22_UniqueBoxIds ==
    \A i, j \in DOMAIN boxes :
        i # j => boxes[i].id # boxes[j].id

(***************************************************************************)
(* Properties of the accounts (under SpecAdmin and SpecSetup)              *)
(***************************************************************************)
\* C14: every admin operation that succeeds (listing users, changing a role,
\* deleting a user, resetting the database) was requested by an account that
\* is in the user store with role 'admin' at the time of the request; an
\* account stored with role 'user', or deleted, is refused whatever token it
\* presents.
C14_AdminOpsByStoredAdmins ==
    \A c \in Clients :
        (auth[c].kind \in AdminKinds /\ auth[c].pc = "done"
         /\ auth[c].status = 200) =>
            auth[c].storedRole = "admin"

\* C15: POST /api/auth/setup creates the first admin only while no admin
\* exists: across any interleaving of setup requests at most one creates an
\* account, and a setup request issued once an admin exists is answered 400
\* and does not touch the user store.
C15_SingleSetup ==
    /\ setupCount <= 1
    /\ \A c \in Clients :
         (auth[c].kind = "setup" /\ auth[c].adminAtRequest) =>
            /\ auth[c].pc \in {"needsSetup", "done"}
            /\ auth[c].pc = "done" => auth[c].status = 400

\* C25: user ids and normalised emails are unique in the user store, whatever
\* the interleaving of the setup and register requests: no two accounts of
\* db.data.users share an id, and no two share an email.
C25_UniqueUsers ==
    \A i, j \in DOMAIN users :
        i # j => /\ users[i].id # users[j].id
                 /\ users[i].email # users[j].email

\* an account stored as admin exists, in db.data and in db.json, and no
\* deletion past its first test names the caller's own account
AdminKept ==
    /\ AdminCount(users) >= 1
    /\ AdminCount(ReadData) >= 1
    /\ \A i \in DOMAIN writeQueue : AdminCount(writeQueue[i].data) >= 1
    /\ \A c \in Clients :
         (auth[c].kind = "deleteUser" /\ auth[c].pc \in {"reading", "writing"}) =>
            auth[c].id # auth[c].user.id

\* the step in which client c's role change or deletion is answered 400
Refused(c) ==
    /\ auth[c].pc # "done"
    /\ auth'[c].pc = "done"
    /\ auth'[c].kind \in {"userRole", "deleteUser"}
    /\ auth'[c].status = 400

\* a refusal writes nothing: db.json and the writes under way are as before,
\* and db.data is as it was or as the handler's db.read() delivered it
RefusedLeavesStore ==
    \A c \in Clients :
        Refused(c) =>
            /\ usersDisk' = usersDisk
            /\ writeQueue' = writeQueue
            /\ users' = IF auth[c].pc = "reading" THEN ReadData ELSE users

Quiescent ==
    \A s \in Sessions : request[s] = NoRequest /\ events[s] = <<>>

Displayed(s) == {id \in BoxIds : layers[s][id] > 0}

StoredIds == {store[i].id : i \in DOMAIN store}

ClassPositions(e, labelId) ==
    {i - 1 : i \in {j \in DOMAIN e.labels : e.labels[j].id = labelId}}

\* the stored boxes an exported annotation can stand for
BoxesOf(e, a) ==
    {i \in DOMAIN e.boxes : e.boxes[i].id = a.boxId}

\* C17: in the response of GET /api/export/yolo the classes carry the ids
\* 0..n-1 in label order; every exported annotation belongs to a stored box
\* that has an image, a yolo annotation and a label among the labels, and its
\* class_id is the zero-based position of that label in the classes list;
\* totalImages <= totalBoxes.
C17_ExportClassIds ==
    exported # None =>
        LET e == exported[1]
        IN  /\ Len(e.json.classes) = Len(e.labels)
            /\ \A i \in DOMAIN e.json.classes :
                 /\ e.json.classes[i].id = i - 1
                 /\ e.json.classes[i].name = e.labels[i].name
            /\ \A k \in DOMAIN e.json.images :
                 \E i \in BoxesOf(e, e.json.images[k]) :
                    /\ e.boxes[i].image # None
                    /\ e.boxes[i].yolo # None
                    /\ e.json.images[k].classId
                         \in ClassPositions(e, e.boxes[i].labelId)
            /\ e.json.totalImages <= e.json.totalBoxes

(***************************************************************************)
(* Properties of the onlineUsers registry (under SpecRegistry)             *)
(***************************************************************************)
\* C21: onlineUsers holds exactly one entry per connected authenticated
\* socket, keyed by the socket's id and carrying the socket's user: entries
\* come with the connection and go with the disconnect, a refused socket has
\* none, and the list last emitted is the current list, sent to every
\* connected socket.
C21_OneEntryPerSocket ==
    /\ {onlineUsers[i].key : i \in DOMAIN onlineUsers} = Connected(conn)
    /\ Len(onlineUsers) = Cardinality(Connected(conn))
    /\ \A i \in DOMAIN onlineUsers :
         onlineUsers[i].value = conn[onlineUsers[i].key].user
    /\ emitted = None => onlineUsers = <<>>
    /\ emitted # None =>
         /\ emitted[1].list = MapValues(onlineUsers)
         /\ emitted[1].to = Connected(conn)

\* two sockets of the same account are connected, the one of the higher id
\* having connected first, and the handshake of a third has been refused
C21_Witness ==
    /\ \E s, t \in SocketIds :
         /\ s # t
         /\ conn[s].state = "connected" /\ conn[t].state = "connected"
         /\ conn[s].user = conn[t].user
    /\ \E s \in SocketIds : conn[s].state = "refused"
    /\ emitted # None /\ Len(emitted[1].list) = 2
    /\ onlineUsers[1].key > onlineUsers[2].key

(***************************************************************************)
(* Properties of db.json under concurrent requests (under SpecStore)       *)
(***************************************************************************)
\* C23: no acknowledged write is lost: a box whose POST /api/boxes was
\* answered 201 is in db.json until a DELETE /api/boxes removes it, whatever
\* the interleaving of the requests.
C23_AcknowledgedBoxesKept ==
    \A b \in acked \ deleted : \E i \in DOMAIN jsonBoxes : jsonBoxes[i] = b

====
